---------------------------- MODULE Spec2Model ----------------------------
(***************************************************************************)
(* context-slicer: the budget-fitting context-packing engine (focusAuto), *)
(* its configuration, model-budget resolution and tier loop.              *)
(*                                                                         *)
(* Conventions of the model                                                *)
(*  - a JavaScript string that the code inspects character by character   *)
(*    (a model identifier) is a sequence of one-character strings;        *)
(*  - an optional value (undefined / null / absent) is a set with at most *)
(*    one element: {} is undefined, {v} is v;                              *)
(*  - a parsed JSON value is a tagged record: [t |-> "num", v |-> n],     *)
(*    [t |-> "arr", v |-> <<...>>], [t |-> "obj", v |-> <<entries>>] with *)
(*    entries [k |-> key, v |-> value] in insertion order;                *)
(*  - a JavaScript number that may be non-finite is a record              *)
(*    [k |-> "num" | "inf" | "nan", v |-> Int].                            *)
(***************************************************************************)
EXTENDS Integers, Sequences, FiniteSets, TLC

(***************************************************************************)
(* Strings as character sequences                                          *)
(***************************************************************************)
UpperChars == <<"A","B","C","D","E","F","G","H","I","J","K","L","M",
                "N","O","P","Q","R","S","T","U","V","W","X","Y","Z">>

LowerChars == <<"a","b","c","d","e","f","g","h","i","j","k","l","m",
                "n","o","p","q","r","s","t","u","v","w","x","y","z">>

\* String.prototype.toLowerCase on one ASCII character
LowerChar(c) ==
    IF \E i \in 1..Len(UpperChars) : UpperChars[i] = c
    THEN LowerChars[CHOOSE i \in 1..Len(UpperChars) : UpperChars[i] = c]
    ELSE c

toLowerCase(s) == [i \in 1..Len(s) |-> LowerChar(s[i])]

\* the characters matched by \s and removed by trim()
WhiteSpace == {" ", "\t", "\n"}

RECURSIVE trimStart(_)
trimStart(s) ==
    IF s # <<>> /\ Head(s) \in WhiteSpace THEN trimStart(Tail(s)) ELSE s

RECURSIVE trimEnd(_)
trimEnd(s) ==
    IF s # <<>> /\ s[Len(s)] \in WhiteSpace
    THEN trimEnd(SubSeq(s, 1, Len(s) - 1))
    ELSE s

trim(s) == trimEnd(trimStart(s))

startsWith(s, p) == Len(s) >= Len(p) /\ SubSeq(s, 1, Len(p)) = p

slice(s, n) == SubSeq(s, n + 1, Len(s))

\* s.split("@")[0]
RECURSIVE splitAtHead(_)
splitAtHead(s) ==
    IF s = <<>> \/ Head(s) = "@" THEN <<>>
    ELSE <<Head(s)>> \o splitAtHead(Tail(s))

\* F applied to the value of v (v is computed once, then bound)
Then(v, F(_)) == CHOOSE r \in {F(x) : x \in {v}} : TRUE

\* .replace(/\s+/g, "-")
RECURSIVE replaceWhiteSpaceRuns(_)
replaceWhiteSpaceRuns(s) ==
    IF s = <<>> THEN <<>>
    ELSE IF Head(s) \in WhiteSpace
         THEN <<"-">> \o Then(trimStart(s), LAMBDA r : replaceWhiteSpaceRuns(r))
         ELSE <<Head(s)>> \o replaceWhiteSpaceRuns(Tail(s))

\* .replace(/^gpt\s*/i, "gpt-")
GptPrefix == <<"g","p","t">>

replaceGptPrefix(s) ==
    IF startsWith(toLowerCase(s), GptPrefix)
    THEN <<"g","p","t","-">> \o trimStart(slice(s, Len(GptPrefix)))
    ELSE s

\* .replace(/\(preview\)/g, "")
PreviewTag == <<"(","p","r","e","v","i","e","w",")">>

RECURSIVE removePreview(_)
removePreview(s) ==
    IF s = <<>> THEN <<>>
    ELSE IF startsWith(s, PreviewTag)
         THEN Then(slice(s, Len(PreviewTag)), LAMBDA r : removePreview(r))
         ELSE <<Head(s)>> \o removePreview(Tail(s))

RECURSIVE dropHyphens(_)
dropHyphens(s) ==
    IF s # <<>> /\ Head(s) = "-" THEN dropHyphens(Tail(s)) ELSE s

\* .replace(/--+/g, "-")
RECURSIVE collapseHyphens(_)
collapseHyphens(s) ==
    IF s = <<>> THEN <<>>
    ELSE IF Head(s) = "-"
         THEN <<"-">> \o Then(dropHyphens(s), LAMBDA r : collapseHyphens(r))
         ELSE <<Head(s)>> \o collapseHyphens(Tail(s))

CopilotPrefix == <<"c","o","p","i","l","o","t","/">>

\* normalizeModelName(raw), raw an optional string
normalizeModelName(raw) ==
    Then(toLowerCase(trim(IF raw = {} THEN <<>> ELSE CHOOSE s \in raw : TRUE)),
      LAMBDA s0 :
        IF s0 = <<>> THEN <<>>
        ELSE
          Then(splitAtHead(s0), LAMBDA beforeAt :
          Then(IF startsWith(beforeAt, CopilotPrefix)
               THEN slice(beforeAt, Len(CopilotPrefix))
               ELSE beforeAt, LAMBDA cleaned :
          Then(replaceGptPrefix(cleaned), LAMBDA s1 :
          Then(replaceWhiteSpaceRuns(s1), LAMBDA s2 :
          Then(removePreview(s2), LAMBDA s3 :
          Then(collapseHyphens(s3), LAMBDA s4 : trim(s4))))))))

(***************************************************************************)
(* Optional values and parsed JSON values                                  *)
(***************************************************************************)
Undefined == {}

Some(v) == {v}

The(o) == CHOOSE v \in o : TRUE

\* a ?? b
Nullish(o, d) == IF o = {} THEN d ELSE The(o)

Num(n) == [t |-> "num", v |-> n, d |-> 1]

\* the number n / d
Frac(n, d) == [t |-> "num", v |-> n, d |-> d]

Arr(a) == [t |-> "arr", v |-> a]

Obj(entries) == [t |-> "obj", v |-> entries]

Entry(k, v) == [k |-> k, v |-> v]

Null == [t |-> "null"]

\* isObject(x): a non-null object that is not an array
isObject(x) == x.t = "obj"

\* a value in a condition: null, 0 and "" are falsy
Truthy(x) ==
    CASE x.t = "null" -> FALSE
      [] x.t = "num" -> x.v # 0
      [] x.t = "str" -> x.v # ""
      [] OTHER -> TRUE

\* k in obj (own keys)
HasKey(x, k) == isObject(x) /\ \E i \in 1..Len(x.v) : x.v[i].k = k

\* x?.[k], an optional value
Get(x, k) ==
    IF HasKey(x, k)
    THEN Some(x.v[CHOOSE i \in 1..Len(x.v) : x.v[i].k = k].v)
    ELSE Undefined

\* o?.[k] for an optional o
GetOpt(o, k) == IF o = {} THEN Undefined ELSE Get(The(o), k)

\* out[k] = v on an entry list: an existing key keeps its position, a new
\* key is appended
SetKey(entries, k, v) ==
    IF \E i \in 1..Len(entries) : entries[i].k = k
    THEN [i \in 1..Len(entries) |->
             IF entries[i].k = k THEN Entry(k, v) ELSE entries[i]]
    ELSE Append(entries, Entry(k, v))

\* faulty variant of deepMerge: { ...base, ...extra }
RECURSIVE assignEntries(_, _)
assignEntries(out, extra) ==
    IF extra = <<>> THEN out
    ELSE assignEntries(SetKey(out, Head(extra).k, Head(extra).v), Tail(extra))

deepMergeShallow(base, extra) ==
    IF ~isObject(base) \/ ~isObject(extra) THEN extra
    ELSE Obj(assignEntries(base.v, extra.v))

RECURSIVE deepMerge(_, _)
RECURSIVE mergeEntries(_, _)

\* the for-loop of deepMerge over Object.entries(extra)
mergeEntries(out, extra) ==
    IF extra = <<>> THEN out
    ELSE LET k == Head(extra).k
             v == Head(extra).v
             merged == IF HasKey(Obj(out), k)
                       THEN deepMerge(The(Get(Obj(out), k)), v)
                       ELSE v
         IN  mergeEntries(SetKey(out, k, merged), Tail(extra))

deepMerge(base, extra) ==
    IF ~isObject(base) \/ ~isObject(extra) THEN extra
    ELSE Obj(mergeEntries(base.v, extra.v))

(***************************************************************************)
(* Built-in defaults                                                       *)
(***************************************************************************)
Gpt(suffix) == <<"g","p","t","-">> \o suffix

Codex == <<"-","c","o","d","e","x">>

GPT_4_1 == Gpt(<<"4",".","1">>)

GPT_4O == Gpt(<<"4","o">>)

GPT_5 == Gpt(<<"5">>)

GPT_5_MINI == Gpt(<<"5","-","m","i","n","i">>)

GPT_5_1 == Gpt(<<"5",".","1">>)

GPT_5_1_CODEX == GPT_5_1 \o Codex

GPT_5_2 == Gpt(<<"5",".","2">>)

GPT_5_2_CODEX == GPT_5_2 \o Codex

GPT_5_3_CODEX == Gpt(<<"5",".","3">>) \o Codex

Window(n) == Obj(<<Entry("contextWindowTokens", Num(n))>>)

DEFAULT_MODEL_CONTEXTS ==
    Obj(<<
      Entry("models", Obj(<<
        Entry(GPT_4_1, Window(64000)),
        Entry(GPT_4O, Window(64000)),
        Entry(GPT_5, Window(128000)),
        Entry(GPT_5_MINI, Window(128000)),
        Entry(GPT_5_1, Window(128000)),
        Entry(GPT_5_1_CODEX, Window(128000)),
        Entry(GPT_5_2, Window(128000)),
        Entry(GPT_5_2_CODEX, Window(272000)),
        Entry(GPT_5_3_CODEX, Window(272000)) >>)),
      Entry("policy", Obj(<<
        Entry("targetFractionOfContext", Frac(1, 4)),
        Entry("minBudgetTokens", Num(6000)),
        Entry("maxBudgetTokens", Num(60000)) >>)) >>)

DEFAULT_OUTPUT_DIR == ".context-slicer"

(***************************************************************************)
(* ModelBudgetResolver                                                     *)
(***************************************************************************)
\* Object.keys(ctx.models ?? {})
modelKeys(ctx) ==
    LET m == Get(ctx, "models")
    IN  IF m # {} /\ isObject(The(m))
        THEN [i \in 1..Len(The(m).v) |-> The(m).v[i].k]
        ELSE <<>>

resolveModelKey(model, ctx) ==
    IF GetOpt(Get(ctx, "models"), model) # {}
       /\ Truthy(The(GetOpt(Get(ctx, "models"), model)))
    THEN model
    ELSE LET keys == modelKeys(ctx)
             hit(k) == model = k \/ startsWith(model, k \o <<"-">>)
         IN  IF \E i \in 1..Len(keys) : hit(keys[i])
             THEN keys[CHOOSE i \in 1..Len(keys) :
                         hit(keys[i]) /\ \A j \in 1..(i - 1) : ~hit(keys[j])]
             ELSE model

\* Math.floor(a * b) for two non-negative rationals
floorProduct(a, b) == (a.v * b.v) \div (a.d * b.d)

Min(a, b) == IF a <= b THEN a ELSE b

Max(a, b) == IF a >= b THEN a ELSE b

budgetForModel(model, ctx) ==
    LET models == Get(ctx, "models")
        policy == Get(ctx, "policy")
        modelKey == resolveModelKey(model, ctx)
        entry == GetOpt(models, modelKey)
        windowTokens ==
            Nullish(GetOpt(entry, "contextWindowTokens"),
                Nullish(GetOpt(GetOpt(models, GPT_4_1), "contextWindowTokens"),
                    Num(64000)))
        target == floorProduct(windowTokens,
                      Nullish(GetOpt(policy, "targetFractionOfContext"), Frac(1, 4)))
        minB == Nullish(GetOpt(policy, "minBudgetTokens"), Num(6000)).v
        maxB == Nullish(GetOpt(policy, "maxBudgetTokens"), Num(60000)).v
    IN  Min(maxB, Max(minB, target))

(***************************************************************************)
(* ConfigResolver                                                          *)
(***************************************************************************)
Str(x) == [t |-> "str", v |-> x]

\* const user of loadConfig: what JSON.parse returns, {} without a document
userOf(doc) == IF doc.exists THEN doc.json ELSE Obj(<<>>)

\* faulty variant of baseAfterMerge: deepMerge assigns to base itself
baseAfterMergeInPlace(base, extra) == deepMerge(base, extra)

\* the object passed as base once deepMerge(base, extra) returned: the
\* assignments of line 13 go to the copy { ...base } of line 11
baseAfterMerge(base, extra) == base

\* loadConfig(repoRoot) for an override document that is absent or parses;
\* doc.exists says whether .context-slicer.json exists, doc.json is what
\* JSON.parse returns; defaults is the object DEFAULT_MODEL_CONTEXTS as the
\* process holds it
loadConfigFrom(defaults, doc) ==
    LET user == userOf(doc)
        tokenEstimator == Get(user, "tokenEstimator")
    IN  [ outputDir |-> Nullish(Get(user, "outputDir"), Str(DEFAULT_OUTPUT_DIR)),
          modelContexts |-> deepMerge(defaults,
                                Nullish(Get(user, "modelContexts"), Obj(<<>>))),
          preset |-> Nullish(Get(user, "preset"), Str("auto")),
          tokenEstimator |->
            [ charsPerToken |->
                  Nullish(GetOpt(tokenEstimator, "charsPerToken"), Num(4)),
              maxFileBytes |->
                  Nullish(GetOpt(tokenEstimator, "maxFileBytes"), Num(1024 * 1024)) ] ]

loadConfig(doc) == loadConfigFrom(DEFAULT_MODEL_CONTEXTS, doc)

(***************************************************************************)
(* Best-effort probe of the editor's global state                          *)
(***************************************************************************)
\* the for-loop of detectModelFromVSCodeGlobalState over the candidate
\* state databases; each candidate says whether the file exists, whether
\* the copy and the sqlite3 query succeed, whether stdout parses, and the
\* value found under chat.defaultLanguageModel
RECURSIVE probeCandidates(_)
probeCandidates(candidates) ==
    IF candidates = <<>> THEN Undefined
    ELSE LET c == Head(candidates)
             usable == c.exists /\ c.copyOk /\ c.queryOk /\ c.parses
                       /\ c.raw # {} /\ Len(The(c.raw)) > 0
         IN  IF usable /\ normalizeModelName(c.raw) # <<>>
             THEN Some(normalizeModelName(c.raw))
             ELSE probeCandidates(Tail(candidates))

\* faulty variant of detectModelFromVSCodeGlobalState: the candidates are
\* queried although sqlite3 --version failed
detectModelUnguarded(probe) == probeCandidates(probe.candidates)

detectModelFromVSCodeGlobalState(probe) ==
    IF ~probe.hasSqlite THEN Undefined ELSE probeCandidates(probe.candidates)

(***************************************************************************)
(* RepositoryShapeDetector and InclusionPlanner                            *)
(***************************************************************************)
\* faulty variant of detectPreset: the tauri layout is tested first
detectPresetTauriFirst(dirs) ==
    IF "src-tauri" \in dirs /\ "src" \in dirs THEN "tauri-root"
    ELSE IF "apps" \in dirs /\ ("libs" \in dirs \/ "services" \in dirs) THEN "polylith"
    ELSE "generic"

\* detectPreset(repoRoot): dirs is the set of directories at the root
detectPreset(dirs) ==
    IF "apps" \in dirs /\ ("libs" \in dirs \/ "services" \in dirs) THEN "polylith"
    ELSE IF "src-tauri" \in dirs /\ "src" \in dirs THEN "tauri-root"
    ELSE "generic"

\* a pattern "<root>/**"
Tree(root) == [t |-> "tree", root |-> root]

\* a pattern "<inner>/**/<mod>/**"
Nested(inner, mod) == [t |-> "nested", root |-> inner, mod |-> mod]

\* a pattern "<prefix>*" on the names of the root directory
NamePrefix(prefix) == [t |-> "prefix", prefix |-> prefix]

\* a pattern naming one file
Exact(path) == [t |-> "exact", path |-> path]

\* faulty variant of repomixArgsFor: the leanest tier keeps the README only
repomixArgsByMode(preset, target, outputDir, mode) ==
    [ include |->
        IF mode = "lite-compress-min" THEN << NamePrefix("README") >>
        ELSE << Tree(<<target>>), Tree(<<"src">>), Tree(<<"lib">>),
                Tree(<<"docs">>), NamePrefix("README"),
                Exact(<<"package.json">>) >>,
      mode |-> mode ]

repomixArgsFor(preset, target, outputDir, mode) ==
    [ include |->
        IF preset = "tauri-root" THEN
            << Nested(<<"src">>, target), Nested(<<"src-tauri">>, target),
               Tree(<<"src">>), Tree(<<"src-tauri">>), Tree(<<"docs">>),
               NamePrefix("README"), Exact(<<"package.json">>) >>
        ELSE IF preset = "polylith" THEN
            << Tree(<<"apps", "desktop", "src", "modules", target>>),
               Tree(<<"apps", "web", "src", "components", target>>),
               Tree(<<"libs">>), Tree(<<"proto">>), Tree(<<"docs">>),
               NamePrefix("README") >>
        ELSE
            << Tree(<<target>>), Tree(<<"src">>), Tree(<<"lib">>),
               Tree(<<"docs">>), NamePrefix("README"),
               Exact(<<"package.json">>) >>,
      mode |-> mode ]

(***************************************************************************)
(* FileDiscovery, TokenEstimator, ContentPacker                            *)
(*                                                                         *)
(* A path is the sequence of its segments.  The file system maps each path *)
(* of the universe to an optional entry [kind, size, text]: a file or a    *)
(* directory, size in bytes, and its text.  A text is the sequence of its  *)
(* lines, a line being its length and whether it holds white space only.   *)
(* The files of the output directories are kept apart (what focusAuto      *)
(* wrote there) and are part of what the packer sees.                      *)
(***************************************************************************)
SRC_A == <<"src", "a.ts">>

SRC_B == <<"src", "b.ts">>

README == <<"README.md">>

DOCS_GUIDE == <<"docs", "guide.md">>

\* a directory
DOCS_IMG == <<"docs", "img">>

SRC_MIXER == <<"src", "mixer", "m.ts">>

SRC_DEP == <<"src", "node_modules", "dep.js">>

SRC_DS == <<"src", ".DS_Store">>

GITIGNORE == <<".gitignore">>

\* an outputDir of the configuration that lies under docs
DOCS_CONTEXT == "docs/context"

OutDirs == {DEFAULT_OUTPUT_DIR, DOCS_CONTEXT}

\* join(repoRoot, cfg.outputDir) relative to the root, as segments
outDirPath(d) == IF d = DOCS_CONTEXT THEN <<"docs", "context">> ELSE <<d>>

OutNames == {"xml", "meta"}

\* join(outDir, "active_context.xml"), join(outDir, "active_context.meta.json")
outPath(d, name) ==
    outDirPath(d) \o
        <<IF name = "xml" THEN "active_context.xml" ELSE "active_context.meta.json">>

OutPaths == {outPath(d, name) : d \in OutDirs, name \in OutNames}

\* the order in which the glob walk reports the paths
DiscoveryOrder ==
    << README,
       outPath(DOCS_CONTEXT, "meta"), outPath(DOCS_CONTEXT, "xml"),
       DOCS_GUIDE, DOCS_IMG,
       SRC_DS, SRC_A, SRC_B, SRC_MIXER, SRC_DEP,
       outPath(DEFAULT_OUTPUT_DIR, "meta"), outPath(DEFAULT_OUTPUT_DIR, "xml") >>

Paths == {DiscoveryOrder[i] : i \in 1..Len(DiscoveryOrder)}

\* the paths of the repository's own files
RepoPaths == (Paths \ OutPaths) \cup {GITIGNORE}

\* the number of characters of a path relative to the root
pathChars(p) ==
    CASE p = README -> 9
      [] p = SRC_A -> 8
      [] p = SRC_B -> 8
      [] p = DOCS_GUIDE -> 13
      [] p = DOCS_IMG -> 8
      [] p = SRC_MIXER -> 14
      [] p = SRC_DEP -> 23
      [] p = SRC_DS -> 13
      [] p = outPath(DOCS_CONTEXT, "xml") -> 31
      [] p = outPath(DOCS_CONTEXT, "meta") -> 37
      [] p = outPath(DEFAULT_OUTPUT_DIR, "xml") -> 34
      [] p = outPath(DEFAULT_OUTPUT_DIR, "meta") -> 40

\* names of the root directory that start with the given prefix
RootNamesWithPrefix(prefix) == IF prefix = "README" THEN {"README.md"} ELSE {}

isPrefix(p, s) == Len(p) <= Len(s) /\ SubSeq(s, 1, Len(p)) = p

matches(pattern, path) ==
    CASE pattern.t = "tree" ->
            Len(path) > Len(pattern.root) /\ isPrefix(pattern.root, path)
      [] pattern.t = "nested" ->
            /\ isPrefix(pattern.root, path)
            /\ \E i \in (Len(pattern.root) + 1)..(Len(path) - 1) :
                   path[i] = pattern.mod
      [] pattern.t = "prefix" ->
            Len(path) = 1 /\ path[1] \in RootNamesWithPrefix(pattern.prefix)
      [] pattern.t = "exact" -> path = pattern.path

\* DEFAULT_IGNORE: directories ignored at any depth, and .DS_Store
DEFAULT_IGNORE ==
    << "**/.git/**", "**/node_modules/**", "**/dist/**", "**/target/**",
       "**/.context-slicer/**", "**/.DS_Store" >>

IgnoredDirs == {".git", "node_modules", "dist", "target", ".context-slicer"}

defaultIgnored(path) ==
    \/ \E i \in 1..(Len(path) - 1) : path[i] \in IgnoredDirs
    \/ path[Len(path)] = ".DS_Store"

\* loadGitignore(repoRoot): the rules of .gitignore, null when the file is
\* absent or cannot be read
loadGitignore(files) ==
    IF files[GITIGNORE] = {} THEN Undefined
    ELSE IF ~The(files[GITIGNORE]).readable THEN Undefined
    ELSE Some(The(files[GITIGNORE]).rules)

\* ig.ignores(rel) for rules that are bare names: a path is ignored when one
\* of its segments has such a name
ignores(rules, path) == \E i \in 1..Len(path) : path[i] \in rules

\* the filter createGitignoreFilter(repoRoot) returns
createGitignoreFilter(files, path) == ~ignores(Nullish(loadGitignore(files), {}), path)

\* faulty variant of listFiles: the ignore option is not passed
listFilesUnignored(files, include) ==
    LET keep(p) == /\ files[p] # {}
                   /\ The(files[p]).kind = "file"
                   /\ \E i \in 1..Len(include) : matches(include[i], p)
                   /\ createGitignoreFilter(files, p)
    IN  SelectSeq(DiscoveryOrder, keep)

\* listFiles({repoRoot, include}): files only, each once, in discovery order
listFiles(files, include) ==
    LET keep(p) == /\ files[p] # {}
                   /\ The(files[p]).kind = "file"
                   /\ \E i \in 1..Len(include) : matches(include[i], p)
                   /\ ~defaultIgnored(p)
                   /\ createGitignoreFilter(files, p)
    IN  SelectSeq(DiscoveryOrder, keep)

\* a JavaScript number that may be non-finite
Finite(n) == [k |-> "num", v |-> n]

Infinity == [k |-> "inf", v |-> 0]

NaN == [k |-> "nan", v |-> 0]

\* Math.ceil(a / b) for a >= 0 and b > 0
ceilDiv(a, b) == (a + b - 1) \div b

\* estimateTokensFromBytes(totalBytes, charsPerToken), charsPerToken >= 0
estimateTokensFromBytes(totalBytes, charsPerToken) ==
    IF charsPerToken.v = 0
    THEN IF totalBytes = 0 THEN NaN ELSE Infinity
    ELSE Finite(ceilDiv(totalBytes * charsPerToken.d, charsPerToken.v))

\* sumFileSizes(paths): a path that cannot be stat'ed is ignored
RECURSIVE sumFileSizes(_, _)
sumFileSizes(files, paths) ==
    IF paths = <<>> THEN 0
    ELSE (IF files[Head(paths)] # {} /\ The(files[Head(paths)]).kind = "file"
          THEN The(files[Head(paths)]).size
          ELSE 0)
         + sumFileSizes(files, Tail(paths))

\* safeReadText(filePath, maxBytes) of an existing path: null when it is not
\* a file or is too large
safeReadText(files, path, maxBytes) ==
    IF The(files[path]).kind # "file" THEN Undefined
    ELSE IF The(files[path]).size > maxBytes THEN Undefined
    ELSE files[path]

\* a line of n characters, not all white space
Line(n) == [len |-> n, blank |-> FALSE]

\* a line of n white-space characters
Blank(n) == [len |-> n, blank |-> TRUE]

RECURSIVE sumLen(_)
sumLen(lines) == IF lines = <<>> THEN 0 ELSE Head(lines).len + sumLen(Tail(lines))

\* lines.join("\n").length
joinedLength(lines) == IF lines = <<>> THEN 0 ELSE sumLen(lines) + Len(lines) - 1

\* faulty variant of stripEmptyLines: the text is kept as it is
stripEmptyLinesKeep(text) == text

\* stripEmptyLines(text): the lines of text.split(/\r?\n/) with
\* l.trim().length > 0, to be joined by "\n"
stripEmptyLines(text) ==
    LET kept(l) == ~l.blank
    IN  SelectSeq(text, kept)

RECURSIVE sumChars(_)
sumChars(entries) ==
    IF entries = <<>> THEN 0 ELSE Head(entries).chars + sumChars(Tail(entries))

\* buildXml({repoRoot, filePaths, maxFileBytes, removeEmptyLines: true}) when
\* every path still exists: one entry per file that is not too large
buildXml(files, filePaths, maxFileBytes) ==
    LET readable(p) == safeReadText(files, p, maxFileBytes) # {}
        kept == SelectSeq(filePaths, readable)
        entries == [i \in 1..Len(kept) |->
                       [path |-> kept[i],
                        chars |-> joinedLength(stripEmptyLines(The(files[kept[i]]).text))]]
    IN  [xml |-> entries, totalChars |-> sumChars(entries), totalFiles |-> Len(entries)]

\* a file with the given text (one byte per character)
TextFile(text) == Some([kind |-> "file", size |-> joinedLength(text), text |-> text])

\* a file of size bytes, chars of them on its first line and the others a
\* line break and a line of white space
File(size, chars) ==
    TextFile(IF size = chars THEN <<Line(chars)>>
             ELSE <<Line(chars), Blank(size - chars - 1)>>)

Dir == Some([kind |-> "dir", size |-> 4096, text |-> <<>>])

\* the bytes of the artifact: "<context_slicer>\n", then per entry
\* `  <file path="`, the path, `"><![CDATA[`, the content, `]]></file>\n`,
\* then "</context_slicer>\n" (the escapes cdata adds are not counted)
RECURSIVE xmlBytes(_)
xmlBytes(entries) ==
    IF entries = <<>> THEN 35
    ELSE 36 + pathChars(Head(entries).path) + Head(entries).chars
            + xmlBytes(Tail(entries))

\* the bytes of JSON.stringify(meta, null, 2), about
MetaBytes == 300

\* the file that writeFileSync left at an output path; its text has one
\* empty line, the last
outFile(o, d, name) ==
    IF o[d] = {} THEN Undefined
    ELSE IF The(o[d])[name] = {} THEN Undefined
    ELSE LET size == IF name = "xml" THEN xmlBytes(The(The(o[d])[name])) ELSE MetaBytes
         IN  File(size, size - 1)

\* what the file system holds: the repository's files and the output files
disk(files, o) ==
    [p \in RepoPaths \cup OutPaths |->
        IF p \in OutPaths
        THEN LET at == CHOOSE dn \in OutDirs \X OutNames : outPath(dn[1], dn[2]) = p
             IN  outFile(o, at[1], at[2])
        ELSE files[p]]

\* "]]>"
CdataEnd == <<"]", "]", ">">>

\* "<![CDATA["
CdataStart == <<"<", "!", "[", "C", "D", "A", "T", "A", "[">>

\* "</file>"
FileClose == <<"<", "/", "f", "i", "l", "e", ">">>

\* text.replaceAll("]]>", "]]]]><![CDATA[>")
RECURSIVE replaceAllCdataEnd(_)
replaceAllCdataEnd(text) ==
    IF text = <<>> THEN <<>>
    ELSE IF startsWith(text, CdataEnd)
         THEN <<"]", "]">> \o CdataEnd \o CdataStart \o <<">">>
                  \o replaceAllCdataEnd(slice(text, Len(CdataEnd)))
         ELSE <<Head(text)>> \o replaceAllCdataEnd(Tail(text))

\* faulty variant of cdata: the text is not escaped
cdataRaw(text) == CdataStart \o text \o CdataEnd

cdata(text) == CdataStart \o replaceAllCdataEnd(text) \o CdataEnd

\* the entry of buildXml for one file, from the content block on:
\* `${cdata(content)}</file>`
fileEntry(text) == cdata(text) \o FileClose

(***************************************************************************)
(* BudgetFitter: focusAuto                                                 *)
(***************************************************************************)
\* faulty variants of chooseModes: the list is not narrowed by the budget;
\* the high threshold is exclusive
chooseModesAll(budgetTokens) ==
    <<"full", "lite", "lite-compress", "lite-compress-min">>

chooseModesStrict(budgetTokens) ==
    IF budgetTokens > 45000
    THEN <<"full", "lite", "lite-compress", "lite-compress-min">>
    ELSE IF budgetTokens >= 20000
         THEN <<"lite", "lite-compress", "lite-compress-min">>
         ELSE <<"lite-compress", "lite-compress-min">>

chooseModes(budgetTokens) ==
    IF budgetTokens >= 45000
    THEN <<"full", "lite", "lite-compress", "lite-compress-min">>
    ELSE IF budgetTokens >= 20000
         THEN <<"lite", "lite-compress", "lite-compress-min">>
         ELSE <<"lite-compress", "lite-compress-min">>

\* a || b on strings: the empty string is falsy
OrElse(a, b) == IF a # <<>> THEN a ELSE b

\* a || b on optional strings: undefined and the empty string are falsy
OrElseOpt(a, b) == IF a # {} /\ The(a) # <<>> THEN a ELSE b

\* process.env.COPILOT_MODEL || process.env.VSCODE_COPILOT_MODEL || process.env.LM_MODEL
envModelOf(env) ==
    OrElseOpt(env.COPILOT_MODEL, OrElseOpt(env.VSCODE_COPILOT_MODEL, env.LM_MODEL))

\* faulty variant of resolveModel: the raw candidates are tested, and the
\* first one given is normalized
resolveModelRaw(modelId, envModelRaw, detectedModel) ==
    normalizeModelName(
        OrElseOpt(modelId, OrElseOpt(envModelRaw, OrElseOpt(detectedModel, Some(GPT_4_1)))))

\* normalizeModelName(modelId) || normalizeModelName(envModel) || detected || "gpt-4.1"
resolveModel(modelId, envModelRaw, detectedModel) ==
    OrElse(normalizeModelName(modelId),
        OrElse(normalizeModelName(envModelRaw),
            OrElse(Nullish(detectedModel, <<>>), GPT_4_1)))

\* faulty variant of resolveBudget: a supplied budget is raised to the
\* budget of the model when it is smaller
resolveBudgetFloor(budgetTokens, model, ctx) ==
    IF budgetTokens # {} /\ The(budgetTokens) > 0
    THEN Max(The(budgetTokens), budgetForModel(model, ctx))
    ELSE budgetForModel(model, ctx)

\* Number.isFinite(budgetTokens) && budgetTokens > 0 ? budgetTokens : budgetForModel(...)
resolveBudget(budgetTokens, model, ctx) ==
    IF budgetTokens # {} /\ The(budgetTokens) > 0
    THEN The(budgetTokens)
    ELSE budgetForModel(model, ctx)

\* faulty variant of the fit check: off by one
fitsLoose(est, budgetTokens) == est.k = "num" /\ est.v <= budgetTokens + 1

\* estTokens <= budget
fits(est, budgetTokens) == est.k = "num" /\ est.v <= budgetTokens

(***************************************************************************)
(* State                                                                   *)
(***************************************************************************)
VARIABLES
    pc,             \* position of the invocation of focusAuto
    args,           \* its arguments: modelId, budgetTokens, target
    doc,            \* the override document .context-slicer.json as line 16 found it
    cfg,            \* const cfg (optional: undefined before line 16)
    env,            \* process.env as read at line 20
    probe,          \* the editor state found by the probe of line 21
    envModel,       \* const envModel
    detected,       \* const detected
    resolvedModel,  \* const resolvedModel
    budget,         \* const budget
    rootDirs,       \* directories at the root besides those of the files in fs
    preset,         \* const preset
    modes,          \* const modes
    tier,           \* index in modes of the loop variable mode, 0 before the loop
    filePaths,      \* const filePaths of the current iteration
    estTokens,      \* const estTokens of the current iteration (optional)
    built,          \* const built (optional)
    ret,            \* what the invocation returned or threw
    fs,             \* the repository's files
    out,            \* per output directory: absent, or the two output files
    attempts,       \* history: the tiers estimated by this invocation, in order
    prior,          \* history: out when this invocation began
    changed,        \* history: the repository changed during this invocation
    content,        \* const content of one iteration of buildXml (line 111)
    record,         \* the entry pushed for it (line 114), optional
    calls,          \* concurrent invocations: the locals of focusAuto of each
    outs,           \* per repository root: out, as seen by the concurrent invocations
    writers,        \* history: per repository root, who wrote each output file last
    globals,        \* the module-level tables of the process serving tool calls
    overrides,      \* per repository root: its override document
    entry,          \* the entry point that serves the tool calls
    activePanel,          \* extension: let activePanel (0 is null)
    activePanelReady,     \* extension: let activePanelReady
    pendingAddModules,    \* extension: let pendingAddModules
    panels,               \* extension: the webview panels created so far
    adds,                 \* extension: calls of addToGraph awaiting anvilHolo.open
    passed,               \* history: the paths passed to addToGraph and what became of them
    inspectInFlight,      \* webview: inspectInFlight.current
    inspectScopeInFlight, \* webview: inspectScopeInFlight.current (optional)
    inspections           \* the inspectNode requests not yet answered, and how many were sent

loaded == <<doc, cfg>>

packer == <<content, record>>

server == <<calls, outs, writers, globals, overrides, entry>>

extension == <<activePanel, activePanelReady, pendingAddModules, panels, adds, passed>>

webview == <<inspectInFlight, inspectScopeInFlight, inspections>>

resolved == <<env, probe, envModel, detected, resolvedModel, budget, rootDirs, preset, modes>>

iter == <<tier, filePaths, estTokens, built>>

vars == <<pc, args, loaded, resolved, iter, ret, fs, out, attempts, prior, changed, packer, server, extension, webview>>

Doc(json) == [exists |-> TRUE, valid |-> TRUE, json |-> json]

NoDoc == [exists |-> FALSE, valid |-> FALSE, json |-> Obj(<<>>)]

MalformedDoc == [exists |-> TRUE, valid |-> FALSE, json |-> Obj(<<>>)]

\* the document is the JSON value null
NullDoc == Doc(Null)

REPO_ROOT == "/repo"

\* the directories existsSync finds at the repository root: those the files
\* of the repository lie in, and the others
existingDirs(files, others) ==
    others \cup {p[1] : p \in {q \in DOMAIN files : files[q] # {} /\ Len(q) > 1}}

NoFiles == [xml |-> Undefined, meta |-> Undefined]

NoResult == [kind |-> "none"]

Returned(meta) == [kind |-> "returned", meta |-> meta]

\* JSON.parse throws on a malformed override document
ConfigParseError == [kind |-> "thrown", name |-> "SyntaxError"]

\* reading a property of null throws
ConfigTypeError == [kind |-> "thrown", name |-> "TypeError"]

\* new Error(`Unable to generate slice within budget=${budget} tokens`)
BudgetError(budgetTokens) ==
    [ kind |-> "thrown", name |-> "Error",
      message |-> "Unable to generate slice within budget=${budget} tokens",
      budget |-> budgetTokens ]

\* statSync in safeReadText throws when a discovered file has vanished
StatError == [kind |-> "thrown", name |-> "ENOENT"]

Running == pc \notin {"idle", "DONE", "FAIL"}

NoEnv == [COPILOT_MODEL |-> Undefined, VSCODE_COPILOT_MODEL |-> Undefined,
          LM_MODEL |-> Undefined]

NoProbe == [hasSqlite |-> FALSE, candidates |-> <<>>]

(***************************************************************************)
(* Actions                                                                 *)
(***************************************************************************)
\* a caller invokes focusAuto({repoRoot, target, modelId, budgetTokens})
Invoke(from, modelIds, budgetArgs) ==
    /\ pc \in from
    /\ \E m \in modelIds, b \in budgetArgs :
          args' = [modelId |-> m, budgetTokens |-> b, target |-> "mixer"]
    /\ pc' = "INIT"
    /\ doc' = NoDoc
    /\ cfg' = Undefined
    /\ env' = NoEnv
    /\ probe' = NoProbe
    /\ envModel' = Undefined
    /\ detected' = Undefined
    /\ resolvedModel' = <<>>
    /\ budget' = 0
    /\ rootDirs' = {}
    /\ preset' = ""
    /\ modes' = <<>>
    /\ tier' = 0
    /\ filePaths' = <<>>
    /\ estTokens' = Undefined
    /\ built' = Undefined
    /\ ret' = NoResult
    /\ attempts' = <<>>
    /\ prior' = out
    /\ changed' = FALSE
    /\ UNCHANGED <<fs, out, packer, server, extension, webview>>

\* faulty variant of mkdirSync: the directory is recreated empty
mkdirSyncFresh(o, outDir) == [o EXCEPT ![outDir] = Some(NoFiles)]

\* mkdirSync(outDir, {recursive: true}): an existing directory is kept
mkdirSync(o, outDir) == [o EXCEPT ![outDir] = IF @ = {} THEN Some(NoFiles) ELSE @]

\* faulty variant of loadError: a document that cannot be used is taken as
\* an empty one
loadErrorSwallowed(d) == Undefined

\* what loadConfig throws, if it throws: JSON.parse on a malformed document,
\* user.outputDir on a document that is null
loadError(d) ==
    IF d.exists /\ ~d.valid THEN Some(ConfigParseError)
    ELSE IF d.exists /\ d.json = Null THEN Some(ConfigTypeError)
    ELSE Undefined

\* lines 16-18: loadConfig, mkdirSync
LoadConfig(docs) ==
    /\ pc = "INIT"
    /\ doc' \in docs
    /\ IF loadError(doc') # {}
       THEN /\ pc' = "FAIL"
            /\ ret' = The(loadError(doc'))
            /\ UNCHANGED <<cfg, out>>
       ELSE /\ pc' = "RESOLVE_BUDGET"
            /\ cfg' = Some(loadConfig(doc'))
            /\ out' = mkdirSync(out, loadConfig(doc').outputDir.v)
            /\ UNCHANGED ret
    /\ UNCHANGED <<args, resolved, iter, fs, attempts, prior, changed, packer, server, extension, webview>>

\* lines 20-29: the model identifier, the budget, the preset, the tier list
ResolveBudget(envs, probes, shapes) ==
    /\ pc = "RESOLVE_BUDGET"
    /\ env' \in envs
    /\ probe' \in probes
    /\ envModel' = envModelOf(env')
    /\ detected' = detectModelFromVSCodeGlobalState(probe')
    /\ resolvedModel' = resolveModel(args.modelId, envModel', detected')
    /\ budget' = resolveBudget(args.budgetTokens, resolvedModel', The(cfg).modelContexts)
    /\ rootDirs' \in shapes
    /\ preset' = IF The(cfg).preset.v = "auto"
                 THEN detectPreset(existingDirs(fs, rootDirs'))
                 ELSE The(cfg).preset.v
    /\ modes' = chooseModes(budget')
    /\ pc' = "SELECT_TIER"
    /\ UNCHANGED <<args, loaded, iter, ret, fs, out, attempts, prior, changed, packer, server, extension, webview>>

\* faulty variants of nextTier: one skips a tier, one takes the same tier again
nextTierSkip(i) == i + 2

nextTierRetry(i) == IF i = 0 THEN 1 ELSE i

\* the index of the tier the loop takes after index i
nextTier(i) == i + 1

\* line 30 and line 65: the loop takes the next tier, or the tiers are
\* exhausted and the invocation throws
SelectTier ==
    /\ pc = "SELECT_TIER"
    /\ IF nextTier(tier) \in 1..Len(modes)
       THEN /\ tier' = nextTier(tier)
            /\ pc' = "DISCOVER"
            /\ UNCHANGED ret
       ELSE /\ pc' = "FAIL"
            /\ ret' = BudgetError(budget)
            /\ UNCHANGED tier
    /\ UNCHANGED <<args, loaded, resolved, filePaths, estTokens, built, fs, out,
                   attempts, prior, changed, packer, server, extension, webview>>

\* lines 31-34: the plan of the tier and the awaited listFiles
Discover ==
    /\ pc = "DISCOVER"
    /\ filePaths' = listFiles(disk(fs, out),
           repomixArgsFor(preset, args.target, The(cfg).outputDir.v, modes[tier]).include)
    /\ pc' = "ESTIMATE"
    /\ UNCHANGED <<args, loaded, resolved, tier, estTokens, built, ret, fs, out,
                   attempts, prior, changed, packer, server, extension, webview>>

\* lines 35-38: the estimate of the tier and the fit check
Estimate ==
    /\ pc = "ESTIMATE"
    /\ estTokens' = Some(estimateTokensFromBytes(sumFileSizes(disk(fs, out), filePaths),
                             The(cfg).tokenEstimator.charsPerToken))
    /\ attempts' = Append(attempts, [mode |-> modes[tier], est |-> The(estTokens')])
    /\ pc' = IF fits(The(estTokens'), budget) THEN "PACK" ELSE "SELECT_TIER"
    /\ UNCHANGED <<args, loaded, resolved, tier, filePaths, built, ret, fs, out,
                   prior, changed, packer, server, extension, webview>>

\* lines 39-44: buildXml
Pack ==
    /\ pc = "PACK"
    /\ IF \A i \in 1..Len(filePaths) : disk(fs, out)[filePaths[i]] # {}
       THEN /\ built' = Some(buildXml(disk(fs, out), filePaths,
                                 The(cfg).tokenEstimator.maxFileBytes.v))
            /\ pc' = "WRITE"
            /\ UNCHANGED ret
       ELSE /\ pc' = "FAIL"
            /\ ret' = StatError
            /\ UNCHANGED built
    /\ UNCHANGED <<args, loaded, resolved, tier, filePaths, estTokens, fs, out,
                   attempts, prior, changed, packer, server, extension, webview>>

\* writeFileSync(join(outDir, name), data): creates or replaces the file
\* faulty variant of writeFileSync: a file that is there is kept
writeFileSyncKeep(o, outDir, name, data) ==
    [o EXCEPT ![outDir] =
        Some([Nullish(@, NoFiles) EXCEPT ![name] = IF @ = {} THEN Some(data) ELSE @])]

writeFileSync(o, outDir, name, data) ==
    [o EXCEPT ![outDir] = Some([Nullish(@, NoFiles) EXCEPT ![name] = Some(data)])]

\* line 46: writeFileSync(join(outDir, "active_context.xml"), built.xml)
WriteXml ==
    /\ pc = "WRITE"
    /\ out' = writeFileSync(out, The(cfg).outputDir.v, "xml", The(built).xml)
    /\ pc' = "WRITE_META"
    /\ UNCHANGED <<args, loaded, resolved, iter, ret, fs, attempts, prior, changed, packer, server, extension, webview>>

\* lines 48-58
metaOf ==
    [ repoRoot |-> REPO_ROOT,
      preset |-> preset,
      target |-> args.target,
      model |-> resolvedModel,
      budgetTokens |-> budget,
      mode |-> modes[tier],
      totalTokens |-> The(estTokens),
      totalFiles |-> The(built).totalFiles,
      totalChars |-> The(built).totalChars ]

\* lines 60-61: writeFileSync(join(outDir, "active_context.meta.json"), ...)
\* and return meta
WriteMeta ==
    /\ pc = "WRITE_META"
    /\ out' = writeFileSync(out, The(cfg).outputDir.v, "meta", metaOf)
    /\ ret' = Returned(metaOf)
    /\ pc' = "DONE"
    /\ UNCHANGED <<args, loaded, resolved, iter, fs, attempts, prior, changed, packer, server, extension, webview>>

\* another process changes the repository's files (a change made while no
\* invocation runs is a change made before the next one reads anything)
FsChange(repos) ==
    /\ Running
    /\ fs' \in repos \ {fs}
    /\ changed' = TRUE
    /\ UNCHANGED <<pc, args, loaded, resolved, iter, ret, out, attempts, prior, packer, server, extension, webview>>

\* line 114 of the packer, for one content
PushEntry ==
    /\ record = Undefined
    /\ record' = Some(fileEntry(content))
    /\ UNCHANGED <<pc, args, loaded, resolved, iter, ret, fs, out, attempts,
                   prior, changed, content, server, extension, webview>>

(***************************************************************************)
(* Inputs                                                                  *)
(***************************************************************************)
\* a repository of README.md, src/a.ts and src/b.ts
Repo(readme, a, b) ==
    (README :> readme) @@ (SRC_A :> a) @@ (SRC_B :> b)
        @@ [p \in RepoPaths |-> Undefined]

\* .gitignore with the given rules
Gitignore(readable, rules) ==
    Some([kind |-> "file", size |-> 20, text |-> <<Line(20)>>,
          readable |-> readable, rules |-> rules])

\* 2000 bytes, 1950 characters without its two empty lines
Readme == TextFile(<<Line(1000), Blank(0), Blank(48), Line(949)>>)

\* 1000 bytes, 990 characters without its empty line
SourceA == TextFile(<<Line(500), Blank(9), Line(489)>>)

\* three text files totalling 4000 bytes
RepoSmall == Repo(Readme, SourceA, File(1000, 1000))

\* one byte more: 4001 bytes
RepoOdd == Repo(Readme, File(1001, 991), File(1000, 1000))

\* a large source file: 103000 bytes
RepoLarge == Repo(Readme, File(100000, 99000), File(1000, 1000))

\* a source file above the default maxFileBytes
RepoHuge == Repo(Readme, File(2000000, 1990000), File(1000, 1000))

\* src/a.ts deleted
RepoShrunk == Repo(Readme, Undefined, File(1000, 1000))

\* a repository with documents, a directory under docs, a module, a
\* dependency directory and an OS artifact under src, and a .gitignore
RepoTree(gitignore) ==
    (GITIGNORE :> gitignore) @@ (DOCS_GUIDE :> File(400, 390)) @@ (DOCS_IMG :> Dir)
        @@ (SRC_MIXER :> File(600, 590)) @@ (SRC_DEP :> File(5000, 4900))
        @@ (SRC_DS :> File(100, 100)) @@ RepoSmall

\* no src directory
RepoDocsOnly == Repo(Readme, Undefined, Undefined)

Repos == {RepoSmall, RepoOdd, RepoLarge, RepoHuge, RepoShrunk}

ID_BLANK == <<" ", "\t">>

ID_CODEX == <<"G","P","T"," ","5",".","2"," ","C","o","d","e","x">>

ID_COPILOT == CopilotPrefix \o GPT_5 \o <<"@","2","0","2","4","-","0","1">>

ID_PREVIEW == <<"G","P","T"," ","4",".","1"," ","(","P","r","e","v","i","e","w",")">>

ID_AT == <<"@","x">>

ID_TINY == <<"t","i","n","y">>

ID_GPT4O == <<"g","p","t","4","o">>

ID_MINI_HIGH == GPT_5_MINI \o <<"-","h","i","g","h">>

ModelIds == {Undefined, Some(ID_BLANK), Some(ID_CODEX), Some(ID_COPILOT)}

BudgetArgs == {Undefined, Some(0), Some(1), Some(1000), Some(6000), Some(45000)}

Env(a, b, c) == [COPILOT_MODEL |-> a, VSCODE_COPILOT_MODEL |-> b, LM_MODEL |-> c]

Envs == { NoEnv,
          Env(Some(ID_AT), Undefined, Some(GPT_5)),
          Env(Some(<<>>), Some(ID_PREVIEW), Undefined),
          Env(Undefined, Undefined, Some(ID_TINY)),
          Env(Undefined, Some(ID_GPT4O), Some(ID_AT)),
          Env(Undefined, Undefined, Some(ID_MINI_HIGH)) }

Candidate(exists, copyOk, queryOk, parses, raw) ==
    [exists |-> exists, copyOk |-> copyOk, queryOk |-> queryOk,
     parses |-> parses, raw |-> raw]

NoDb == Candidate(FALSE, FALSE, FALSE, FALSE, Undefined)

Db(raw) == Candidate(TRUE, TRUE, TRUE, TRUE, raw)

Probes == { [hasSqlite |-> FALSE, candidates |-> <<Db(Some(GPT_5_MINI)), NoDb, NoDb, NoDb>>],
            [hasSqlite |-> TRUE, candidates |-> <<NoDb, NoDb, NoDb, NoDb>>],
            [hasSqlite |-> TRUE,
             candidates |-> <<NoDb, Db(Some(ID_BLANK)), Db(Some(GPT_5_MINI)), Db(Some(GPT_4O))>>],
            [hasSqlite |-> TRUE,
             candidates |-> << Candidate(TRUE, FALSE, FALSE, FALSE, Undefined),
                               Candidate(TRUE, TRUE, FALSE, FALSE, Undefined),
                               Candidate(TRUE, TRUE, TRUE, FALSE, Undefined),
                               Db(Undefined) >>] }


TokenEstimatorDoc(key, n) ==
    Doc(Obj(<<Entry("tokenEstimator", Obj(<<Entry(key, Num(n))>>))>>))

PolicyDoc(entries) ==
    Doc(Obj(<<Entry("modelContexts", Obj(<<Entry("policy", Obj(entries))>>))>>))

OutputDirDoc(dir) == Doc(Obj(<<Entry("outputDir", Str(dir))>>))

PresetDoc(name) == Doc(Obj(<<Entry("preset", Str(name))>>))

ModelsDoc(entries) ==
    Doc(Obj(<<Entry("modelContexts", Obj(<<Entry("models", Obj(entries))>>))>>))

Docs == { NoDoc, MalformedDoc, NullDoc,
          PresetDoc("generic"), OutputDirDoc(DOCS_CONTEXT),
          TokenEstimatorDoc("charsPerToken", 3),
          TokenEstimatorDoc("charsPerToken", 0),
          TokenEstimatorDoc("maxFileBytes", 1500),
          PolicyDoc(<<Entry("minBudgetTokens", Num(60000)),
                      Entry("maxBudgetTokens", Num(6000))>>),
          PolicyDoc(<<Entry("targetFractionOfContext", Frac(1, 2)),
                      Entry("maxBudgetTokens", Num(50000))>>),
          PolicyDoc(<<Entry("tags", Arr(<<Str("a"), Str("b")>>)),
                      Entry("minBudgetTokens", Num(8000))>>),
          ModelsDoc(<<Entry(ID_TINY, Window(8000)),
                      Entry(GPT_5, Window(200000))>>),
          ModelsDoc(<<Entry(GPT_5_MINI, Null)>>) }

(***************************************************************************)
(* Concurrent invocations                                                  *)
(*                                                                         *)
(* The locals of an invocation are a record.  focusAutoStep takes an       *)
(* invocation from one position of focusAuto to the next, together with    *)
(* the output directories of its repository, the writers of their files    *)
(* and the module-level tables of its process.  Separate processes         *)
(* interleave at every step; the invocations of one process run on one     *)
(* thread and interleave where focusAuto awaits.                           *)
(***************************************************************************)
CallIds == {1, 2}

OTHER_ROOT == "/other"

Roots == {REPO_ROOT, OTHER_ROOT}

NoResponse == [kind |-> "none"]

\* the tool result of lines 25-41 of the handler
ToolResult(meta) == [kind |-> "result", ok |-> TRUE, meta |-> meta]

\* the handler's promise rejected: the server answers with an error
ToolError == [kind |-> "error"]

\* JSON.stringify of a Promise: {}
PromiseJson == [kind |-> "promise"]

NoCall ==
    [ pc |-> "idle", root |-> REPO_ROOT, budgetTokens |-> Undefined,
      cfg |-> Undefined, model |-> <<>>, budget |-> 0, preset |-> "",
      modes |-> <<>>, tier |-> 0, filePaths |-> <<>>, estTokens |-> Undefined,
      built |-> Undefined, ret |-> NoResult, response |-> NoResponse ]

\* focusAuto({repoRoot, target, budgetTokens}) entered
NewCall(root, budgetTokens) ==
    [NoCall EXCEPT !.pc = "INIT", !.root = root, !.budgetTokens = budgetTokens]

NoWriters == [xml |-> 0, meta |-> 0]

DefaultTables == [modelContexts |-> DEFAULT_MODEL_CONTEXTS, ignore |-> DEFAULT_IGNORE]

\* lines 48-58 for the locals c
metaFor(c) ==
    [ repoRoot |-> c.root,
      preset |-> c.preset,
      target |-> "mixer",
      model |-> c.model,
      budgetTokens |-> c.budget,
      mode |-> c.modes[c.tier],
      totalTokens |-> The(c.estTokens),
      totalFiles |-> The(c.built).totalFiles,
      totalChars |-> The(c.built).totalChars ]

\* one step of invocation id of focusAuto: s.c its locals, s.o the output
\* directories of its repository, s.w their writers, s.g the tables of its
\* process; d is the override document of its repository
focusAutoStep(id, s, d) ==
    LET c == s.c
        files == disk(RepoSmall, s.o)
    IN  CASE c.pc = "INIT" ->
               \* lines 16-18
               IF loadError(d) # {}
               THEN [s EXCEPT !.c.pc = "FAIL", !.c.ret = The(loadError(d))]
               ELSE [s EXCEPT
                       !.c.pc = "RESOLVE",
                       !.c.cfg = Some(loadConfigFrom(s.g.modelContexts, d)),
                       !.o = mkdirSync(@, loadConfigFrom(s.g.modelContexts, d).outputDir.v),
                       !.g.modelContexts =
                           baseAfterMerge(@, Nullish(Get(userOf(d), "modelContexts"),
                                                     Obj(<<>>)))]
          [] c.pc = "RESOLVE" ->
               \* lines 20-29, nothing in the environment or the editor state
               LET model == resolveModel(Undefined, envModelOf(NoEnv),
                                detectModelFromVSCodeGlobalState(NoProbe))
                   b == resolveBudget(c.budgetTokens, model, The(c.cfg).modelContexts)
               IN  [s EXCEPT
                       !.c.pc = "SELECT",
                       !.c.model = model,
                       !.c.budget = b,
                       !.c.preset = IF The(c.cfg).preset.v = "auto"
                                    THEN detectPreset(existingDirs(RepoSmall, {}))
                                    ELSE The(c.cfg).preset.v,
                       !.c.modes = chooseModes(b)]
          [] c.pc = "SELECT" ->
               \* line 30 and line 65, then lines 31-34 up to the await
               IF nextTier(c.tier) \in 1..Len(c.modes)
               THEN [s EXCEPT !.c.tier = nextTier(@), !.c.pc = "AWAIT"]
               ELSE [s EXCEPT !.c.pc = "FAIL", !.c.ret = BudgetError(c.budget)]
          [] c.pc = "AWAIT" ->
               \* the listing that listFiles awaits is read from the disk
               [s EXCEPT
                   !.c.filePaths =
                       listFiles(files, repomixArgsFor(c.preset, "mixer",
                           The(c.cfg).outputDir.v, c.modes[c.tier]).include),
                   !.c.pc = "RESUME"]
          [] c.pc = "RESUME" ->
               \* lines 35-38
               LET est == estimateTokensFromBytes(sumFileSizes(files, c.filePaths),
                              The(c.cfg).tokenEstimator.charsPerToken)
               IN  [s EXCEPT !.c.estTokens = Some(est),
                             !.c.pc = IF fits(est, c.budget) THEN "PACK" ELSE "SELECT"]
          [] c.pc = "PACK" ->
               \* lines 39-44
               IF \A i \in 1..Len(c.filePaths) : files[c.filePaths[i]] # {}
               THEN [s EXCEPT
                       !.c.built = Some(buildXml(files, c.filePaths,
                                       The(c.cfg).tokenEstimator.maxFileBytes.v)),
                       !.c.pc = "WRITE"]
               ELSE [s EXCEPT !.c.pc = "FAIL", !.c.ret = StatError]
          [] c.pc = "WRITE" ->
               \* line 46
               [s EXCEPT
                   !.o = writeFileSync(@, The(c.cfg).outputDir.v, "xml", The(c.built).xml),
                   !.w.xml = id,
                   !.c.pc = "WRITE_META"]
          [] c.pc = "WRITE_META" ->
               \* lines 48-61
               [s EXCEPT
                   !.o = writeFileSync(@, The(c.cfg).outputDir.v, "meta", metaFor(c)),
                   !.w.meta = id,
                   !.c.ret = Returned(metaFor(c)),
                   !.c.pc = "DONE"]
          [] OTHER -> s

\* faulty variant of isSuspended: the write of line 46 is awaited too
isSuspendedAtWrite(c) == c.pc \in {"AWAIT", "WRITE_META", "DONE", "FAIL"}

\* the invocation gave up the thread: it awaits listFiles (line 34), or it
\* returned or threw
isSuspended(c) == c.pc \in {"AWAIT", "DONE", "FAIL"}

\* the synchronous run of the invocation up to where it gives up the thread
RECURSIVE runToAwait(_, _, _)
runToAwait(id, s, d) ==
    IF isSuspended(s.c) THEN s ELSE runToAwait(id, focusAutoStep(id, s, d), d)

\* the state invocation p steps in
StateOf(p, c) == [c |-> c, o |-> outs[c.root], w |-> writers[c.root], g |-> globals]

\* what the handler of context_slicer_focus_auto has answered once the
\* invocation is at c: mcp_server awaits focusAuto (line 23), sea_main does
\* not (line 24) and answers with the promise
respond(e, c) ==
    IF c.response # NoResponse THEN c
    ELSE IF e = "sea_main" THEN [c EXCEPT !.response = ToolResult(PromiseJson)]
    ELSE IF c.pc = "DONE" THEN [c EXCEPT !.response = ToolResult(c.ret.meta)]
    ELSE IF c.pc = "FAIL" THEN [c EXCEPT !.response = ToolError]
    ELSE c

\* the invocation of call p moved to s
Moved(p, s) ==
    /\ calls' = [calls EXCEPT ![p] = s.c]
    /\ outs' = [outs EXCEPT ![s.c.root] = s.o]
    /\ writers' = [writers EXCEPT ![s.c.root] = s.w]

program == <<pc, args, loaded, resolved, iter, ret, fs, out, attempts, prior, changed, packer>>

\* a tool call arrives: the handler calls focusAuto, which runs to its
\* first await
context_slicer_focus_auto(p, roots, budgets) ==
    /\ calls[p].pc \in {"idle", "DONE", "FAIL"}
    /\ \E root \in roots, b \in budgets :
          LET c == NewCall(root, b)
              s == runToAwait(p, focusAutoStep(p, StateOf(p, c), overrides[root]),
                              overrides[root])
          IN  /\ Moved(p, [s EXCEPT !.c = respond(entry, @)])
              /\ globals' = s.g
    /\ UNCHANGED <<program, extension, webview, overrides, entry>>

\* the listing an invocation awaits is read
Settle(p) ==
    /\ calls[p].pc = "AWAIT"
    /\ Moved(p, focusAutoStep(p, StateOf(p, calls[p]), overrides[calls[p].root]))
    /\ UNCHANGED <<program, extension, webview, globals, overrides, entry>>

\* the invocation is resumed and runs to its next await or to its end
Resume(p) ==
    /\ calls[p].pc \notin {"idle", "AWAIT", "DONE", "FAIL"}
    /\ LET d == overrides[calls[p].root]
           s == runToAwait(p, focusAutoStep(p, StateOf(p, calls[p]), d), d)
       IN  /\ Moved(p, [s EXCEPT !.c = respond(entry, @)])
           /\ globals' = s.g
    /\ UNCHANGED <<program, extension, webview, overrides, entry>>

\* a process is started on the repository: the command line calls focusAuto
ProcStart(p, budgets) ==
    /\ calls[p].pc = "idle"
    /\ \E b \in budgets : calls' = [calls EXCEPT ![p] = NewCall(REPO_ROOT, b)]
    /\ UNCHANGED <<program, extension, webview, outs, writers, globals, overrides, entry>>

\* a process takes its next step; the tables are its own
ProcStep(p) ==
    /\ calls[p].pc \notin {"idle", "DONE", "FAIL"}
    /\ Moved(p, focusAutoStep(p, StateOf(p, calls[p]), overrides[calls[p].root]))
    /\ UNCHANGED <<program, extension, webview, globals, overrides, entry>>

(***************************************************************************)
(* The editor extension: one shared panel bookkeeping for every panel      *)
(***************************************************************************)
PanelIds == {1, 2}

NoActivePanel == 0

ManifestPaths == {"app/package.json", "core/Cargo.toml"}

\* the model stops after this many addToGraph commands
MaxAdds == 3

\* a panel: none (not created), live or disposed; listening once the
\* message handler of its open command is registered; ready once its
\* webviewReady was handled; inbox is what was posted to its webview
NoPanel == [state |-> "none", listening |-> FALSE, ready |-> FALSE, inbox |-> <<>>]

\* a message ADD_MODULE; via records whether the ready handler or
\* addToGraph itself posted it
ADD_MODULE(path, via) == [type |-> "ADD_MODULE", path |-> path, via |-> via]

\* Array.from(new Set([...pendingAddModules, rel]))
enqueue(pending, rel) ==
    IF \E i \in 1..Len(pending) : pending[i] = rel THEN pending ELSE Append(pending, rel)

RECURSIVE flush(_, _)
\* for (const p of pendingAddModules) post({ type: "ADD_MODULE", path: p })
flush(inbox, pending) ==
    IF pending = <<>> THEN inbox
    ELSE flush(Append(inbox, ADD_MODULE(Head(pending), "ready")), Tail(pending))

\* the panel the next createWebviewPanel makes
NextPanel == CHOOSE p \in PanelIds : panels[p].state = "none" /\ \A q \in PanelIds : q < p => panels[q].state # "none"

\* the start of anvilHolo.open: the panel is created and becomes the active
\* one, the flag and the queue start over
createWebviewPanel(p) ==
    /\ activePanel' = p
    /\ activePanelReady' = FALSE
    /\ pendingAddModules' = <<>>
    /\ panels' = [panels EXCEPT ![p].state = "live"]

\* the end of addToGraph: fail without a panel, queue while the flag is
\* down, post to the active panel otherwise
deliver(rel) ==
    IF activePanel = NoActivePanel
    THEN /\ passed' = Append(passed, [path |-> rel, panel |-> NoActivePanel, how |-> "failed"])
         /\ UNCHANGED <<activePanel, activePanelReady, pendingAddModules, panels>>
    ELSE IF ~activePanelReady
    THEN /\ pendingAddModules' = enqueue(pendingAddModules, rel)
         /\ passed' = Append(passed, [path |-> rel, panel |-> activePanel, how |-> "queued"])
         /\ UNCHANGED <<activePanel, activePanelReady, panels>>
    ELSE /\ panels' = [panels EXCEPT ![activePanel].inbox = Append(@, ADD_MODULE(rel, "direct"))]
         /\ passed' = Append(passed, [path |-> rel, panel |-> activePanel, how |-> "posted"])
         /\ UNCHANGED <<activePanel, activePanelReady, pendingAddModules>>

\* the command anvilHolo.open up to its await of discoverModules
anvilHolo_open ==
    /\ \E p \in PanelIds : panels[p].state = "none"
    /\ createWebviewPanel(NextPanel)
    /\ UNCHANGED <<adds, passed, program, server, webview>>

\* discoverModules resolved: the command registers the message handler of
\* its panel and returns
openReturned(p) ==
    /\ panels[p].state # "none"
    /\ ~panels[p].listening
    /\ panels' = [panels EXCEPT ![p].listening = TRUE]
    /\ UNCHANGED <<activePanel, activePanelReady, pendingAddModules, adds, passed,
                   program, server, webview>>

\* the webview of panel p reports ready, once; a report made before the
\* handler is registered is taken when it is
webviewReady(p) ==
    /\ panels[p].state = "live"
    /\ panels[p].listening
    /\ ~panels[p].ready
    /\ activePanelReady' = TRUE
    /\ panels' = [panels EXCEPT ![p].ready = TRUE, ![p].inbox = flush(@, pendingAddModules)]
    /\ pendingAddModules' = <<>>
    /\ UNCHANGED <<activePanel, adds, passed, program, server, webview>>

\* the user closes panel p
onDidDispose(p) ==
    /\ panels[p].state = "live"
    /\ panels' = [panels EXCEPT ![p].state = "disposed"]
    /\ activePanel' = IF activePanel = p THEN NoActivePanel ELSE activePanel
    /\ UNCHANGED <<activePanelReady, pendingAddModules, adds, passed, program, server, webview>>

\* the command anvilHolo.addToGraph on a manifest: with a panel it delivers
\* the path, without one it starts anvilHolo.open and waits for it
anvilHolo_addToGraph(rel) ==
    /\ Len(passed) + Cardinality(adds) < MaxAdds
    /\ \A a \in adds : a.path # rel
    /\ IF activePanel # NoActivePanel
       THEN deliver(rel) /\ UNCHANGED adds
       ELSE /\ \E p \in PanelIds : panels[p].state = "none"
            /\ createWebviewPanel(NextPanel)
            /\ adds' = adds \cup {[path |-> rel, panel |-> NextPanel]}
            /\ UNCHANGED passed
    /\ UNCHANGED <<program, server, webview>>

\* the open command that addToGraph awaited returned
addToGraphResumed(a) ==
    /\ a \in adds
    /\ panels[a.panel].listening
    /\ deliver(a.path)
    /\ adds' = adds \ {a}
    /\ UNCHANGED <<program, server, webview>>

InitExtension ==
    /\ activePanel = NoActivePanel
    /\ activePanelReady = FALSE
    /\ pendingAddModules = <<>>
    /\ panels = [p \in PanelIds |-> NoPanel]
    /\ adds = {}
    /\ passed = <<>>

(***************************************************************************)
(* The webview: the gate on inspections                                    *)
(***************************************************************************)
ContainerIds == {"node:src", "node:lib"}

TargetPaths == {"src", "src/index.ts", "lib"}

\* the model stops inspecting after this many requests
MaxInspects == 4

\* an inspectNode request on its way; the message carries the targetPath
\* only, containerId records who asked
inspectNode(containerId, targetPath) == [containerId |-> containerId, targetPath |-> targetPath]

\* onInspectPath: a container already in flight is ignored; otherwise the
\* container enters the set, the single slot is overwritten and inspectNode
\* is posted
onInspectPath(containerId, targetPath) ==
    /\ inspections.sent < MaxInspects
    /\ IF containerId \in inspectInFlight
       THEN UNCHANGED webview
       ELSE /\ inspectInFlight' = inspectInFlight \cup {containerId}
            /\ inspectScopeInFlight' = Some(inspectNode(containerId, targetPath))
            /\ inspections' = [open |-> inspections.open \cup {inspectNode(containerId, targetPath)},
                               sent |-> inspections.sent + 1]
    /\ UNCHANGED <<program, server, extension>>

\* the slot after a result for targetPath: cleared when it names that path
slotAfter(slot, targetPath) ==
    IF slot # Undefined /\ The(slot).targetPath = targetPath THEN Undefined ELSE slot

\* the set after a result for targetPath: the container of the slot leaves
\* when the slot names that path
gateAfter(gate, slot, targetPath) ==
    IF slot # Undefined /\ The(slot).targetPath = targetPath
    THEN gate \ {The(slot).containerId}
    ELSE gate

\* the extension answered a request: INSPECT_RESULT with its targetPath
\* arrives
INSPECT_RESULT(request) ==
    /\ request \in inspections.open
    /\ inspectInFlight' = gateAfter(inspectInFlight, inspectScopeInFlight, request.targetPath)
    /\ inspectScopeInFlight' = slotAfter(inspectScopeInFlight, request.targetPath)
    /\ inspections' = [inspections EXCEPT !.open = @ \ {request}]
    /\ UNCHANGED <<program, server, extension>>

InitWebview ==
    /\ inspectInFlight = {}
    /\ inspectScopeInFlight = Undefined
    /\ inspections = [open |-> {}, sent |-> 0]

(***************************************************************************)
(* Specifications                                                          *)
(***************************************************************************)
InitProgram(repos) ==
    /\ pc = "idle"
    /\ args = [modelId |-> Undefined, budgetTokens |-> Undefined, target |-> "mixer"]
    /\ doc = NoDoc
    /\ cfg = Undefined
    /\ env = NoEnv
    /\ probe = NoProbe
    /\ envModel = Undefined
    /\ detected = Undefined
    /\ resolvedModel = <<>>
    /\ budget = 0
    /\ rootDirs = {}
    /\ preset = ""
    /\ modes = <<>>
    /\ tier = 0
    /\ filePaths = <<>>
    /\ estTokens = Undefined
    /\ built = Undefined
    /\ ret = NoResult
    /\ fs \in repos
    /\ out = [d \in OutDirs |-> Undefined]
    /\ attempts = <<>>
    /\ prior = [d \in OutDirs |-> Undefined]
    /\ changed = FALSE

\* no concurrent invocation yet; the repositories have one of the documents
\* and the process runs one of the entry points
InitCalls(documents, entries) ==
    /\ calls = [p \in CallIds |-> NoCall]
    /\ outs = [r \in Roots |-> [d \in OutDirs |-> Undefined]]
    /\ writers = [r \in Roots |-> NoWriters]
    /\ globals = DefaultTables
    /\ overrides \in [Roots -> documents]
    /\ entry \in entries
    /\ InitExtension
    /\ InitWebview

InitWith(repos) ==
    /\ content = <<>>
    /\ record = Undefined
    /\ InitProgram(repos)
    /\ InitCalls({NoDoc}, {"cli"})

\* the steps of the tier loop
Loop ==
    \/ SelectTier
    \/ Discover
    \/ Estimate
    \/ Pack
    \/ WriteXml
    \/ WriteMeta

\* Spec: one invocation of focusAuto on a repository that other processes
\* change while it runs
TierModelIds == {Undefined, Some(ID_CODEX)}

TierEnvs == {NoEnv}

TierProbes == {[hasSqlite |-> FALSE, candidates |-> <<NoDb, NoDb, NoDb, NoDb>>]}

TierShapes == {{}}

TierDocs == { NoDoc, MalformedDoc,
              TokenEstimatorDoc("charsPerToken", 3),
              TokenEstimatorDoc("charsPerToken", 0),
              TokenEstimatorDoc("maxFileBytes", 1500) }

Init == InitWith(Repos)

Next ==
    \/ Invoke({"idle"}, TierModelIds, BudgetArgs)
    \/ LoadConfig(TierDocs)
    \/ ResolveBudget(TierEnvs, TierProbes, TierShapes)
    \/ Loop
    \/ FsChange(Repos)

Spec == Init /\ [][Next]_vars

\* SpecResolve: one invocation on an unchanging repository, with every
\* model identifier, environment, probe outcome and override document
InitResolve == InitWith({RepoSmall})

NextResolve ==
    \/ Invoke({"idle"}, ModelIds, BudgetArgs)
    \/ LoadConfig(Docs)
    \/ ResolveBudget(Envs, Probes, TierShapes)
    \/ Loop

SpecResolve == InitResolve /\ [][NextResolve]_vars

\* SpecRuns: successive invocations on the same repository
RunBudgetArgs == {Undefined, Some(1), Some(1000)}

RunRepos == {RepoSmall, RepoOdd}

InitRuns == InitWith(RunRepos)

NextRuns ==
    \/ Invoke({"idle", "DONE", "FAIL"}, {Undefined}, RunBudgetArgs)
    \/ LoadConfig({NoDoc, MalformedDoc})
    \/ ResolveBudget(TierEnvs, TierProbes, TierShapes)
    \/ Loop
    \/ FsChange(RunRepos)

SpecRuns == InitRuns /\ [][NextRuns]_vars

\* SpecShape: one invocation for every layout of the root and every preset
\* setting
Shapes == SUBSET {"apps", "libs", "services", "src-tauri"}

ShapeDocs == { NoDoc, PresetDoc("auto"), PresetDoc("polylith"),
               PresetDoc("tauri-root"), PresetDoc("generic"), PresetDoc("monorepo") }

InitShape == InitWith({RepoSmall, RepoDocsOnly})

NextShape ==
    \/ Invoke({"idle"}, {Undefined}, {Undefined})
    \/ LoadConfig(ShapeDocs)
    \/ ResolveBudget(TierEnvs, TierProbes, Shapes)
    \/ Loop

SpecShape == InitShape /\ [][NextShape]_vars

\* SpecFiles: successive invocations on a repository with ignored and
\* unmatched paths, with and without .gitignore, writing to the default
\* output directory or to one under docs
FileRepos == { RepoTree(Undefined),
               RepoTree(Gitignore(FALSE, {"b.ts"})),
               RepoTree(Gitignore(TRUE, {"b.ts"})),
               RepoTree(Gitignore(TRUE, {"docs"})) }

FileShapes == {{}, {"src-tauri"}}

FileDocs == {NoDoc, OutputDirDoc(DOCS_CONTEXT)}

FileBudgetArgs == {Some(3000)}

InitFiles == InitWith(FileRepos)

NextFiles ==
    \/ Invoke({"idle", "DONE", "FAIL"}, {Undefined}, FileBudgetArgs)
    \/ LoadConfig(FileDocs)
    \/ ResolveBudget(TierEnvs, TierProbes, FileShapes)
    \/ Loop

SpecFiles == InitFiles /\ [][NextFiles]_vars

\* SpecPacker: the entry of buildXml for every content over the characters
\* of the closing delimiter and one other, up to a length
MaxContentLen == 6

ContentChars == {"]", ">", "a"}

Contents == UNION {[1..n -> ContentChars] : n \in 0..MaxContentLen}

InitPacker ==
    /\ InitProgram({RepoSmall})
    /\ content \in Contents
    /\ record = Undefined
    /\ InitCalls({NoDoc}, {"cli"})

NextPacker == PushEntry

SpecPacker == InitPacker /\ [][NextPacker]_vars

\* SpecServer: tool calls served by one process, on two repositories, by
\* either entry point; a call may arrive while another awaits its listing
ServerDocs == { NoDoc, MalformedDoc,
                PolicyDoc(<<Entry("minBudgetTokens", Num(20000))>>) }

ServerBudgets == {Undefined, Some(1), Some(2000)}

InitServer ==
    /\ InitProgram({RepoSmall})
    /\ content = <<>>
    /\ record = Undefined
    /\ InitCalls(ServerDocs, {"mcp_server", "sea_main"})

NextServer ==
    \E p \in CallIds :
        \/ context_slicer_focus_auto(p, Roots, ServerBudgets)
        \/ Settle(p)
        \/ Resume(p)

SpecServer == InitServer /\ [][NextServer]_vars

\* SpecProcs: two processes started from the command line on one repository
ProcDocs == {NoDoc, OutputDirDoc(DOCS_CONTEXT)}

ProcBudgets == {Undefined, Some(1), Some(2000)}

InitProcs ==
    /\ InitProgram({RepoSmall})
    /\ content = <<>>
    /\ record = Undefined
    /\ InitCalls(ProcDocs, {"cli"})

NextProcs ==
    \E p \in CallIds :
        \/ ProcStart(p, ProcBudgets)
        \/ ProcStep(p)

SpecProcs == InitProcs /\ [][NextProcs]_vars

\* the extension alone: panels are opened, report ready and are closed
\* while manifests are added to the graph
InitEditor ==
    /\ InitProgram({RepoSmall})
    /\ content = <<>>
    /\ record = Undefined
    /\ InitCalls({NoDoc}, {"cli"})

NextExtension ==
    \/ anvilHolo_open
    \/ \E p \in PanelIds : openReturned(p)
    \/ \E p \in PanelIds : webviewReady(p)
    \/ \E p \in PanelIds : onDidDispose(p)
    \/ \E rel \in ManifestPaths : anvilHolo_addToGraph(rel)
    \/ \E rel \in ManifestPaths : \E p \in PanelIds : addToGraphResumed([path |-> rel, panel |-> p])

SpecExtension == InitEditor /\ [][NextExtension]_vars

\* the webview alone: containers are inspected and results arrive
NextWebview ==
    \/ \E c \in ContainerIds : \E t \in TargetPaths : onInspectPath(c, t)
    \/ \E c \in ContainerIds : \E t \in TargetPaths : INSPECT_RESULT(inspectNode(c, t))

SpecWebview == InitEditor /\ [][NextWebview]_vars


\* SpecLive: Spec, where an invocation that can take a step eventually takes
\* it (the synchronous code runs on, the awaited listFiles settles)
SpecLive ==
    /\ Spec
    /\ WF_vars(LoadConfig(TierDocs))
    /\ WF_vars(ResolveBudget(TierEnvs, TierProbes, TierShapes))
    /\ WF_vars(Loop)

(***************************************************************************)
(* Properties                                                              *)
(***************************************************************************)
\* the estimate of an attempt is within the budget of the invocation
Within(est, b) == est.k = "num" /\ est.v <= b

Finished == pc \in {"DONE", "FAIL"}

Exhausted == pc = "FAIL" /\ ret.name = "Error"

Files(o, d) == Nullish(o[d], NoFiles)

Packing == pc \in {"PACK", "WRITE", "WRITE_META", "DONE"}

\* C1: the tiers of the available list are attempted one at a time in list
\* order, none skipped and none twice; only the last attempt may fit, a tier
\* that fits ends the loop, and the loop gives up only after the whole list
C1_TiersInOrder ==
    /\ Len(attempts) <= Len(modes)
    /\ \A i \in 1..Len(attempts) :
          /\ attempts[i].mode = modes[i]
          /\ i < Len(attempts) => ~Within(attempts[i].est, budget)
    /\ tier = Len(attempts) + (IF pc \in {"DISCOVER", "ESTIMATE"} THEN 1 ELSE 0)
    /\ Packing =>
          /\ attempts # <<>>
          /\ Within(attempts[Len(attempts)].est, budget)
    /\ pc = "SELECT_TIER" /\ attempts # <<>> =>
          ~Within(attempts[Len(attempts)].est, budget)
    /\ Exhausted =>
          /\ Len(attempts) = Len(modes)
          /\ \A i \in 1..Len(attempts) : ~Within(attempts[i].est, budget)

\* a later tier fitted after the first one failed
C1_Witness ==
    /\ pc = "DONE"
    /\ Len(attempts) = 2
    /\ ~Within(attempts[1].est, budget)

\* C2: the metadata returned and written has totalTokens <= budgetTokens, and
\* an output file is written only in a step taken with an estimate of the
\* current tier that is within the budget
C2_WrittenOnlyWhenFits ==
    /\ [](ret.kind = "returned" =>
             /\ Within(ret.meta.totalTokens, ret.meta.budgetTokens)
             /\ \E d \in OutDirs : Files(out, d).meta = Some(ret.meta))
    /\ [][(\E d \in OutDirs : Files(out', d) # Files(out, d)) =>
             /\ estTokens # {}
             /\ Within(The(estTokens), budget)
             /\ attempts # <<>>
             /\ attempts[Len(attempts)] = [mode |-> modes[tier], est |-> The(estTokens)]
         ]_vars

\* a run succeeded with an estimate equal to its budget
C2_Witness ==
    /\ pc = "DONE"
    /\ ret.meta.totalTokens = Finite(ret.meta.budgetTokens)

\* the states of the invocation, in the order it may move through them
PhaseSteps ==
    { <<"idle", "INIT">>, <<"INIT", "RESOLVE_BUDGET">>, <<"INIT", "FAIL">>,
      <<"RESOLVE_BUDGET", "SELECT_TIER">>, <<"SELECT_TIER", "DISCOVER">>,
      <<"SELECT_TIER", "FAIL">>, <<"DISCOVER", "ESTIMATE">>,
      <<"ESTIMATE", "PACK">>, <<"ESTIMATE", "SELECT_TIER">>,
      <<"PACK", "WRITE">>, <<"PACK", "FAIL">>, <<"WRITE", "WRITE_META">>,
      <<"WRITE_META", "DONE">> }

\* C3: an invocation moves INIT -> RESOLVE_BUDGET -> SELECT_TIER -> DISCOVER
\* -> ESTIMATE, back to SELECT_TIER only after a tier that did not fit, and
\* always reaches DONE or FAIL, after at most as many estimates as the tier
\* list has entries, which is at most 4
C3_Terminates ==
    /\ [][pc' # pc => <<pc, pc'>> \in PhaseSteps]_vars
    /\ [](Len(attempts) <= Len(modes) /\ Len(modes) <= 4)
    /\ [](pc = "INIT" => <>Finished)

\* an invocation failed after estimating four tiers
C3_Witness ==
    /\ Exhausted
    /\ Len(attempts) = 4

RECURSIVE smallest(_)
smallest(s) ==
    IF Len(s) = 1 THEN Head(s)
    ELSE LET m == smallest(Tail(s))
         IN  IF Head(s) <= m THEN Head(s) ELSE m

\* the finite estimates of the attempts
finiteEstimates(s) ==
    LET fin(a) == a.est.k = "num"
        kept == SelectSeq(s, fin)
    IN  [i \in 1..Len(kept) |-> kept[i].est.v]

\* C4: when no tier fits, the failure carries the attempted budget and the
\* smallest estimate seen over the attempted tiers
C4_FailureCarriesBestEstimate ==
    Exhausted =>
        /\ "budget" \in DOMAIN ret
        /\ ret.budget = budget
        /\ finiteEstimates(attempts) # <<>> =>
              /\ "estimate" \in DOMAIN ret
              /\ ret.estimate = smallest(finiteEstimates(attempts))

\* C5: an invocation that fails because no tier fits leaves both output
\* files of every output directory as they were when it began
C5_FailureKeepsOutputs ==
    Exhausted => \A d \in OutDirs : Files(out, d) = Files(prior, d)

\* an invocation failed after an earlier one had written both files
C5_Witness ==
    /\ Exhausted
    /\ \E d \in OutDirs :
          /\ Files(prior, d).xml # {}
          /\ Files(prior, d).meta # {}

\* the repository of three text files totalling 4000 bytes, unchanged while
\* the invocation runs, the default charsPerToken = 4 and maxFileBytes, and
\* an explicit budgetTokens = 6000
EndToEnd ==
    /\ ~changed
    /\ fs = RepoSmall
    /\ sumFileSizes(fs, <<README, SRC_A, SRC_B>>) = 4000
    /\ args.budgetTokens = Some(6000)
    /\ cfg # {}
    /\ The(cfg).tokenEstimator =
           [charsPerToken |-> Num(4), maxFileBytes |-> Num(1048576)]

EndToEndResult(mode) ==
    /\ pc = "DONE"
    /\ Len(attempts) = 1
    /\ attempts[1] = [mode |-> mode, est |-> Finite(1000)]
    /\ ret.kind = "returned"
    /\ ret.meta.totalTokens = Finite(1000)
    /\ ret.meta.mode = mode
    /\ ret.meta.totalFiles = 3

\* C6 as stated: the end-to-end run estimates 1000 tokens and succeeds at
\* the first tier, which is full
C6_EndToEndFull == EndToEnd /\ Finished => EndToEndResult("full")

\* C6 as amended: the end-to-end run estimates 1000 tokens and succeeds at
\* the first tier of the list available to a budget of 6000, lite-compress,
\* with totalTokens = 1000 and totalFiles = 3
C6_EndToEndLiteCompress ==
    /\ EndToEnd /\ Finished => EndToEndResult("lite-compress")
    /\ EndToEnd /\ modes # <<>> => modes[1] = "lite-compress"

C6_Witness == EndToEnd /\ pc = "DONE"

TierOrder == <<"full", "lite", "lite-compress", "lite-compress-min">>

HighThreshold == 45000

MidThreshold == 20000

\* the suffix of the fixed order that ends at the leanest tier
LeanestTiers(n) == SubSeq(TierOrder, Len(TierOrder) - n + 1, Len(TierOrder))

TiersFor(b) ==
    LeanestTiers(IF b >= HighThreshold THEN 4 ELSE IF b >= MidThreshold THEN 3 ELSE 2)

ProbeBudgets ==
    {1, 6000, MidThreshold - 1, MidThreshold, MidThreshold + 1,
     HighThreshold - 1, HighThreshold, HighThreshold + 1, 1000000}

\* C7: the tier list of a budget is the suffix of the fixed order ending at
\* the leanest tier: all four from the high threshold, three from the mid
\* threshold, else two; and no larger budget has a shorter list
C7_TierListMonotonic ==
    modes # <<>> =>
        /\ modes = TiersFor(budget)
        /\ \A b \in ProbeBudgets :
              /\ chooseModes(b) = LeanestTiers(Len(chooseModes(b)))
              /\ b > budget => Len(chooseModes(b)) >= Len(modes)
              /\ b < budget => Len(chooseModes(b)) <= Len(modes)

\* the tier list was chosen for a budget equal to the high threshold
C7_Witness == modes # <<>> /\ budget = HighThreshold

\* the budget came from budgetForModel
BudgetFromModel ==
    /\ modes # <<>>
    /\ ~(args.budgetTokens # {} /\ The(args.budgetTokens) > 0)

policyOf(c) == The(Get(c.modelContexts, "policy"))

policyNumber(c, key) == The(Get(policyOf(c), key)).v

\* every context window is > 0 and the target fraction is in (0, 1]
PolicyInputsValid(c) ==
    LET models == The(Get(c.modelContexts, "models")).v
        fraction == The(Get(policyOf(c), "targetFractionOfContext"))
    IN  /\ \A i \in 1..Len(models) :
               /\ Get(models[i].v, "contextWindowTokens") # {}
               /\ The(Get(models[i].v, "contextWindowTokens")).v > 0
        /\ 0 < fraction.v /\ fraction.v <= fraction.d

\* C8: a budget computed by budgetForModel lies within
\* [minBudgetTokens, maxBudgetTokens]
C8_BudgetWithinPolicy ==
    BudgetFromModel /\ PolicyInputsValid(The(cfg)) =>
        /\ policyNumber(The(cfg), "minBudgetTokens") <= budget
        /\ budget <= policyNumber(The(cfg), "maxBudgetTokens")

\* what the tier loop does with a budget of b
LoopUses(b) ==
    /\ budget = b
    /\ modes = TiersFor(b)
    /\ \A i \in 1..Len(attempts) : i < Len(attempts) => ~Within(attempts[i].est, b)
    /\ Packing => Within(attempts[Len(attempts)].est, b)
    /\ ret.kind = "returned" => ret.meta.budgetTokens = b
    /\ Exhausted => ret.budget = b

\* C9 as stated: a supplied budgetTokens is the budget of the invocation
C9_ExplicitBudgetBypasses ==
    args.budgetTokens # {} /\ modes # <<>> => LoopUses(The(args.budgetTokens))

\* C9 as amended: a supplied budgetTokens > 0 is the budget of the
\* invocation, whatever the model and the policy; a supplied budgetTokens
\* that is not > 0 is ignored and the budget comes from budgetForModel
C9_PositiveBudgetBypasses ==
    args.budgetTokens # {} /\ modes # <<>> =>
        IF The(args.budgetTokens) > 0
        THEN LoopUses(The(args.budgetTokens))
        ELSE LoopUses(budgetForModel(resolvedModel, The(cfg).modelContexts))

\* an invocation used a supplied budget that no clamp of its policy admits
C9_Witness ==
    /\ Finished
    /\ modes # <<>>
    /\ args.budgetTokens = Some(1)
    /\ resolvedModel # GPT_4_1
    /\ policyNumber(The(cfg), "minBudgetTokens") > 1

\* the first of the candidates that is not the empty string
firstNonEmpty(candidates) ==
    candidates[CHOOSE i \in 1..Len(candidates) :
                  /\ candidates[i] # <<>>
                  /\ \A j \in 1..(i - 1) : candidates[j] = <<>>]

\* candidate database i of the probe yields a non-empty normalized identifier
Yields(i) ==
    LET c == probe.candidates[i]
    IN  /\ c.exists /\ c.copyOk /\ c.queryOk /\ c.parses
        /\ c.raw # {}
        /\ normalizeModelName(c.raw) # <<>>

\* C10: the model identifier is the first non-empty one of the normalized
\* caller-supplied id, the normalized environment hint, the probe result
\* (normalized by the probe, never empty) and the default gpt-4.1
C10_ModelPrecedence ==
    modes # <<>> =>
        /\ resolvedModel =
               firstNonEmpty(<< normalizeModelName(args.modelId),
                                normalizeModelName(envModel),
                                Nullish(detected, <<>>),
                                GPT_4_1 >>)
        /\ detected # {} =>
              /\ probe.hasSqlite
              /\ \E i \in 1..Len(probe.candidates) :
                    /\ Yields(i)
                    /\ \A j \in 1..(i - 1) : ~Yields(j)
                    /\ The(detected) = normalizeModelName(probe.candidates[i].raw)

\* the caller's id and the environment hint were given and both normalize to
\* the empty string, and the probe result was taken
C10_Witness ==
    /\ modes # <<>>
    /\ args.modelId # {}
    /\ envModel # {} /\ The(envModel) # <<>>
    /\ detected # {}
    /\ resolvedModel = The(detected)

\* the transform as documented: lowercase and trim, drop everything from the
\* first @, drop a leading copilot/, whitespace runs to single hyphens,
\* delete (preview), collapse hyphen runs, trim
DocumentedTransform(raw) ==
    LET s0 == toLowerCase(trim(Nullish(raw, <<>>)))
        beforeAt == splitAtHead(s0)
        cleaned == IF startsWith(beforeAt, CopilotPrefix)
                   THEN slice(beforeAt, Len(CopilotPrefix))
                   ELSE beforeAt
    IN  trim(collapseHyphens(removePreview(replaceWhiteSpaceRuns(cleaned))))

\* the strings the invocation has passed to normalizeModelName
Normalized ==
    {args.modelId, envModel}
        \cup {probe.candidates[i].raw : i \in 1..Len(probe.candidates)}

\* C11: normalizeModelName is the documented transform; "GPT 4.1 (Preview)"
\* gives gpt-4.1, "copilot/gpt-5@2024-01" gives gpt-5, empty gives empty
C11_NormalizeIsTransform ==
    modes # <<>> =>
        \A raw \in Normalized :
            /\ normalizeModelName(raw) = DocumentedTransform(raw)
            /\ raw = Some(ID_PREVIEW) => normalizeModelName(raw) = GPT_4_1
            /\ raw = Some(ID_COPILOT) => normalizeModelName(raw) = GPT_5
            /\ raw \in {Undefined, Some(<<>>)} => normalizeModelName(raw) = <<>>

\* what normalizeModelName and the documented transform give on the examples
NormalizeExamples ==
    /\ normalizeModelName(Some(ID_COPILOT)) = GPT_5
    /\ normalizeModelName(Some(ID_PREVIEW)) = Gpt(<<"4",".","1","-">>)
    /\ DocumentedTransform(Some(ID_PREVIEW)) = Gpt(<<"4",".","1","-">>)
    /\ normalizeModelName(Some(ID_GPT4O)) = GPT_4O
    /\ DocumentedTransform(Some(ID_GPT4O)) = ID_GPT4O


\* the override document exists and JSON.parse rejects it
Malformed == doc.exists /\ ~doc.valid

\* C12: an invocation that finds a malformed override document has failed
\* with the parse error before any discovery: no tier attempted, no output
\* file written or changed; and it takes no further step
C12_MalformedConfigAborts ==
    /\ [](Malformed =>
            /\ pc = "FAIL"
            /\ ret = ConfigParseError
            /\ cfg = Undefined
            /\ tier = 0 /\ attempts = <<>> /\ filePaths = <<>>
            /\ out = prior)
    /\ [][Malformed /\ pc' # "INIT" => UNCHANGED <<pc, ret, out>>]_vars

\* a malformed document was found by an invocation that follows a
\* successful one, whose output files are there
C12_Witness ==
    /\ Malformed
    /\ pc = "FAIL"
    /\ Files(prior, DEFAULT_OUTPUT_DIR).xml # {}
    /\ Files(prior, DEFAULT_OUTPUT_DIR).meta # {}


Keys(x) == {x.v[i].k : i \in 1..Len(x.v)}

\* r is base overridden by o: where both are objects, every key of o has
\* o's value overriding the value of base, every other key has the value of
\* base, and there is no other key; otherwise r is o itself
RECURSIVE Overrides(_, _, _)
Overrides(r, base, o) ==
    IF isObject(base) /\ isObject(o)
    THEN /\ isObject(r)
         /\ Keys(r) = Keys(base) \cup Keys(o)
         /\ \A k \in Keys(r) :
               IF ~HasKey(o, k) THEN Get(r, k) = Get(base, k)
               ELSE IF ~HasKey(base, k) THEN Get(r, k) = Get(o, k)
               ELSE Overrides(The(Get(r, k)), The(Get(base, k)), The(Get(o, k)))
    ELSE r = o

\* the document as loadConfig takes it: {} when there is none
User == IF doc.exists THEN doc.json ELSE Obj(<<>>)

\* the defaults of the configuration other than modelContexts
ConfigDefaults ==
    Obj(<< Entry("outputDir", Str(".context-slicer")),
           Entry("preset", Str("auto")),
           Entry("tokenEstimator", Obj(<< Entry("charsPerToken", Num(4)),
                                          Entry("maxFileBytes", Num(1048576)) >>)) >>)

\* the value of the resolved configuration at a path of keys
Resolved(path) ==
    CASE path = <<"outputDir">> -> The(cfg).outputDir
      [] path = <<"preset">> -> The(cfg).preset
      [] path = <<"tokenEstimator", "charsPerToken">> -> The(cfg).tokenEstimator.charsPerToken
      [] path = <<"tokenEstimator", "maxFileBytes">> -> The(cfg).tokenEstimator.maxFileBytes

At(x, path) == IF Len(path) = 1 THEN Get(x, path[1]) ELSE GetOpt(Get(x, path[1]), path[2])

IsPositiveInt(x) == x.t = "num" /\ x.d = 1 /\ x.v > 0

\* C14: a resolved configuration has an integer charsPerToken > 0, an
\* integer maxFileBytes > 0 and minBudgetTokens <= maxBudgetTokens
C14_ConfigInvariants ==
    cfg # {} =>
        /\ IsPositiveInt(The(cfg).tokenEstimator.charsPerToken)
        /\ IsPositiveInt(The(cfg).tokenEstimator.maxFileBytes)
        /\ policyNumber(The(cfg), "minBudgetTokens")
               <= policyNumber(The(cfg), "maxBudgetTokens")


\* the paths of the records of the packed artifact
PackedPaths == [i \in 1..Len(The(built).xml) |-> The(built).xml[i].path]

\* C15: the estimate of the tier that was packed is the estimate of the
\* bytes of the packed files, which are the files the estimate counted
C15_EstimateCountsPackedFiles ==
    built # {} /\ ~changed =>
        /\ PackedPaths = filePaths
        /\ The(estTokens) =
               estimateTokensFromBytes(sumFileSizes(fs, PackedPaths),
                                       The(cfg).tokenEstimator.charsPerToken)


\* C20: an invocation fails only with the configuration parse error or with
\* the failure of the exhausted tier list
C20_OnlyTwoFailures ==
    pc = "FAIL" => ret = ConfigParseError \/ Exhausted


\* the index of the first occurrence of the closing delimiter in s, 0 if none
firstCdataEnd(s) ==
    LET at(i) == SubSeq(s, i, i + Len(CdataEnd) - 1) = CdataEnd
        hits == {i \in 1..(Len(s) - Len(CdataEnd) + 1) : at(i)}
    IN  IF hits = {} THEN 0 ELSE CHOOSE i \in hits : \A j \in hits : i <= j

\* an XML parser on a run of CDATA sections: each section opens with
\* <![CDATA[ and ends at the first ]]> after it; text is the concatenation
\* of the sections' texts, rest is what follows the last section
RECURSIVE parseSections(_)
parseSections(s) ==
    IF ~startsWith(s, CdataStart) THEN [ok |-> TRUE, text |-> <<>>, rest |-> s]
    ELSE LET body == slice(s, Len(CdataStart))
             e == firstCdataEnd(body)
         IN  IF e = 0 THEN [ok |-> FALSE, text |-> <<>>, rest |-> s]
             ELSE LET more == parseSections(slice(body, e + Len(CdataEnd) - 1))
                  IN  [ok |-> more.ok,
                       text |-> SubSeq(body, 1, e - 1) \o more.text,
                       rest |-> more.rest]

\* C16: the content block of an entry parses as CDATA sections whose texts
\* concatenate to the content exactly, and the closing tag follows the last
\* section
C16_CdataWellFormed ==
    record # {} =>
        LET parsed == parseSections(The(record))
        IN  /\ startsWith(The(record), CdataStart)
            /\ parsed.ok
            /\ parsed.text = content
            /\ parsed.rest = FileClose

\* the entry of a content with two adjacent closing delimiters
C16_Witness == record # {} /\ content = CdataEnd \o CdataEnd


\* existsSync(join(repoRoot, name)) when the preset was derived
Exists(name) ==
    name \in rootDirs \/ \E p \in RepoPaths : fs[p] # {} /\ Len(p) > 1 /\ p[1] = name

\* C19: with preset "auto", apps with libs or services gives polylith (also
\* when src-tauri and src exist), otherwise src-tauri with src gives
\* tauri-root, otherwise generic; any other configured preset is used as is
C19_PresetByExistence ==
    modes # <<>> =>
        LET polylith == Exists("apps") /\ (Exists("libs") \/ Exists("services"))
            tauri == Exists("src-tauri") /\ Exists("src")
            configured == The(cfg).preset.v
        IN  /\ configured = "auto" /\ polylith => preset = "polylith"
            /\ configured = "auto" /\ ~polylith /\ tauri => preset = "tauri-root"
            /\ configured = "auto" /\ ~polylith /\ ~tauri => preset = "generic"
            /\ configured # "auto" => preset = configured

\* the preset was derived for a root with apps, libs, src-tauri and src
C19_Witness ==
    /\ pc = "DONE"
    /\ The(cfg).preset.v = "auto"
    /\ Exists("apps") /\ Exists("libs") /\ Exists("src-tauri") /\ Exists("src")
    /\ preset = "polylith"


Listed == {filePaths[i] : i \in 1..Len(filePaths)}

\* a path of the built-in exclusion set: under .git, node_modules, dist,
\* target or .context-slicer at any depth, or a .DS_Store
BuiltinExcluded(p) ==
    \/ \E i \in 1..(Len(p) - 1) :
          p[i] \in {".git", "node_modules", "dist", "target", ".context-slicer"}
    \/ p[Len(p)] = ".DS_Store"

\* the regular files that a pattern of the tier's plan matches
Expansion ==
    LET plan == repomixArgsFor(preset, args.target, The(cfg).outputDir.v, modes[tier]).include
    IN  { p \in Paths :
            /\ disk(fs, out)[p] # {}
            /\ The(disk(fs, out)[p]).kind = "file"
            /\ \E i \in 1..Len(plan) : matches(plan[i], p) }

\* .gitignore is there and can be read
GitignoreRead == fs[GITIGNORE] # {} /\ The(fs[GITIGNORE]).readable

\* C17: what listFiles returned holds regular files only, no path twice, no
\* path of the built-in exclusion set and no path the rules of .gitignore
\* ignore; without a readable .gitignore it is the expansion of the patterns
\* minus the built-in exclusions
C17_ListedFiles ==
    pc = "ESTIMATE" =>
        /\ Listed \subseteq Expansion
        /\ \A i, j \in 1..Len(filePaths) : filePaths[i] = filePaths[j] => i = j
        /\ \A p \in Listed : ~BuiltinExcluded(p)
        /\ GitignoreRead =>
               \A p \in Listed : \A i \in 1..Len(p) : p[i] \notin The(fs[GITIGNORE]).rules
        /\ ~GitignoreRead => Listed = {p \in Expansion : ~BuiltinExcluded(p)}

\* a listing under the tauri-root plan, two patterns of which match
\* src/mixer/m.ts, with a .gitignore that ignores b.ts
C17_Witness ==
    /\ pc = "ESTIMATE"
    /\ preset = "tauri-root"
    /\ GitignoreRead
    /\ fs[SRC_B] # {} /\ SRC_B \notin Listed
    /\ fs[SRC_DEP] # {} /\ fs[DOCS_IMG] # {}
    /\ SRC_MIXER \in Listed

\* C18: no file of an output directory is discovered or packed
C18_OutputsNeverPacked ==
    /\ Listed \cap OutPaths = {}
    /\ built # {} =>
          \A i \in 1..Len(The(built).xml) : The(built).xml[i].path \notin OutPaths


\* no candidate database of the probe gave an identifier: sqlite3 is missing,
\* or every candidate is absent, cannot be copied or queried, prints what
\* does not parse, or holds no value
ProbeFailed == ~probe.hasSqlite \/ \A i \in 1..Len(probe.candidates) : ~Yields(i)

\* C21: whatever the probe met, the invocation goes on: the probe returns
\* nothing or a non-empty identifier, nothing when it failed, and then the
\* model is resolved from the other candidates; an invocation that loaded its
\* configuration fails only by exhausting its tiers
C21_ProbeNeverAborts ==
    /\ pc = "FAIL" /\ cfg # {} => modes # <<>> /\ ret = BudgetError(budget)
    /\ modes # <<>> =>
          /\ detected = {} \/ The(detected) # <<>>
          /\ ProbeFailed =>
                /\ detected = Undefined
                /\ resolvedModel = firstNonEmpty(<< normalizeModelName(args.modelId),
                                                    normalizeModelName(envModel),
                                                    GPT_4_1 >>)
          /\ budget = resolveBudget(args.budgetTokens, resolvedModel,
                                    The(cfg).modelContexts)

\* sqlite3 is there, the first database exists and cannot be copied, no
\* other gives a value, and the invocation wrote its outputs
C21_Witness ==
    /\ pc = "DONE"
    /\ probe.hasSqlite
    /\ Len(probe.candidates) > 0
    /\ probe.candidates[1].exists /\ ~probe.candidates[1].copyOk
    /\ ProbeFailed

\* the inclusion patterns of the invocation for a tier
PlanOf(mode) == repomixArgsFor(preset, args.target, The(cfg).outputDir.v, mode).include

\* C23: on a file system that did not change during the invocation every
\* tier has the patterns, the file list and the estimate of the first; the
\* invocation succeeds exactly when the first tier of its list fits, records
\* that tier, and never records lite-compress-min
C23_TierIndependentPlan ==
    ~changed /\ modes # <<>> =>
        /\ \A i \in 1..Len(TierOrder) : PlanOf(TierOrder[i]) = PlanOf(modes[1])
        /\ pc \in {"ESTIMATE", "PACK", "WRITE"} =>
               filePaths = listFiles(disk(fs, out), PlanOf(modes[1]))
        /\ \A i \in 1..Len(attempts) : attempts[i].est = attempts[1].est
        /\ Packing => tier = 1 /\ Len(attempts) = 1 /\ Within(attempts[1].est, budget)
        /\ Exhausted => Len(attempts) = Len(modes) /\ ~Within(attempts[1].est, budget)
        /\ ret.kind = "returned" =>
               /\ ret.meta.mode = modes[1]
               /\ ret.meta.mode # "lite-compress-min"

\* four tiers were estimated on an unchanged repository, all the same, and
\* the invocation failed
C23_Witness ==
    /\ ~changed
    /\ Exhausted
    /\ Len(attempts) = 4
    /\ attempts[4].mode = "lite-compress-min"
    /\ attempts[4].est = attempts[1].est

\* k is model or a hyphen-delimited prefix of model
HyphenPrefix(k, model) == model = k \/ startsWith(model, k \o <<"-">>)

\* C24: the key resolved for the model of the invocation is the model itself
\* when it is a key of the policy's models; otherwise the first key, in
\* declared order, that is a hyphen-delimited prefix of the model; otherwise
\* the model.  It is always the model or such a key
C24_ResolveModelKey ==
    modes # <<>> =>
        LET ctx == The(cfg).modelContexts
            keys == modelKeys(ctx)
            key == resolveModelKey(resolvedModel, ctx)
            isKey(m) == \E i \in 1..Len(keys) : keys[i] = m
            first(i) == /\ HyphenPrefix(keys[i], resolvedModel)
                        /\ \A j \in 1..(i - 1) : ~HyphenPrefix(keys[j], resolvedModel)
        IN  /\ isKey(resolvedModel) => key = resolvedModel
            /\ ~isKey(resolvedModel) =>
                   IF \E i \in 1..Len(keys) : first(i)
                   THEN \E i \in 1..Len(keys) : first(i) /\ key = keys[i]
                   ELSE key = resolvedModel
            /\ key = resolvedModel \/ (isKey(key) /\ HyphenPrefix(key, resolvedModel))

\* C24 for a policy whose entries are all objects
C24_ResolveModelKeyTyped ==
    (modes # <<>> =>
        LET models == The(Get(The(cfg).modelContexts, "models")).v
        IN  \A i \in 1..Len(models) : isObject(models[i].v))
    => C24_ResolveModelKey

\* a model that two keys are hyphen-delimited prefixes of, resolved to the
\* first and shorter of them
C24_FirstNotLongest ==
    /\ modes # <<>>
    /\ resolvedModel = ID_MINI_HIGH
    /\ resolveModelKey(resolvedModel, The(cfg).modelContexts) = GPT_5

\* the number of characters of the lines i..Len(text) of a text that are
\* not empty lines, and the number of those lines
RECURSIVE keptChars(_, _)
keptChars(text, i) ==
    IF i > Len(text) THEN 0
    ELSE (IF text[i].blank THEN 0 ELSE text[i].len) + keptChars(text, i + 1)

keptLines(text) == Cardinality({i \in 1..Len(text) : ~text[i].blank})

\* the length of a text once its empty lines are gone
StrippedLength(text) ==
    IF keptLines(text) = 0 THEN 0 ELSE keptChars(text, 1) + keptLines(text) - 1

RECURSIVE totalStripped(_, _)
totalStripped(files, paths) ==
    IF paths = <<>> THEN 0
    ELSE StrippedLength(The(files[Head(paths)]).text) + totalStripped(files, Tail(paths))

\* C25: buildXml emits one record for each listed path that is a regular
\* file no larger than maxFileBytes, in the order of the list; totalFiles is
\* the number of records, at most the number of listed paths, and totalChars
\* is the total length of the packed contents without their empty lines
C25_PackedRecords ==
    [][pc = "PACK" /\ pc' = "WRITE" =>
          LET d == disk(fs, out)
              packable(p) == /\ The(d[p]).kind = "file"
                             /\ The(d[p]).size <= The(cfg).tokenEstimator.maxFileBytes.v
              records == The(built').xml
              packed == [i \in 1..Len(records) |-> records[i].path]
          IN  /\ packed = SelectSeq(filePaths, packable)
              /\ The(built').totalFiles = Len(records)
              /\ The(built').totalFiles <= Len(filePaths)
              /\ The(built').totalChars = totalStripped(d, packed)
              /\ \A i \in 1..Len(records) :
                     records[i].chars = StrippedLength(The(d[packed[i]]).text)
    ]_vars

\* three files were listed, the first is above the ceiling, and the other
\* two were packed in order, one of them with an empty line
C25_Witness ==
    /\ pc = "WRITE"
    /\ ~changed
    /\ filePaths = <<README, SRC_A, SRC_B>>
    /\ PackedPaths = <<SRC_A, SRC_B>>
    /\ fs[SRC_A] = SourceA
    /\ The(built).totalFiles = 2
    /\ The(built).totalChars = 1990

\* the output files of the repository of the processes, in the directory
\* its configuration names
ProcFiles(o) == The(o[REPO_ROOT][loadConfig(overrides[REPO_ROOT]).outputDir.v])

\* C22: concurrent processes on one repository are not coordinated: whatever
\* the other process is doing, a process at line 46 replaces
\* active_context.xml by its artifact and a process at line 60 replaces
\* active_context.meta.json by its metadata, touching nothing else; so the
\* two files can end up written by different invocations (C22_Witness)
C22_WritesUncoordinated ==
    [][\A p \in CallIds :
          /\ calls[p].pc = "WRITE" /\ calls'[p].pc = "WRITE_META" =>
                /\ ProcFiles(outs').xml = Some(The(calls[p].built).xml)
                /\ ProcFiles(outs').meta = ProcFiles(outs).meta
                /\ writers'[REPO_ROOT] = [writers[REPO_ROOT] EXCEPT !.xml = p]
          /\ calls[p].pc = "WRITE_META" /\ calls'[p].pc = "DONE" =>
                /\ ProcFiles(outs').meta = Some(calls'[p].ret.meta)
                /\ ProcFiles(outs').xml = ProcFiles(outs).xml
                /\ writers'[REPO_ROOT] = [writers[REPO_ROOT] EXCEPT !.meta = p]
    ]_vars

\* both processes returned; active_context.xml is the one the first wrote
\* and active_context.meta.json the one the second wrote, with another
\* budget than the first's
C22_Witness ==
    /\ calls[1].pc = "DONE" /\ calls[2].pc = "DONE"
    /\ writers[REPO_ROOT] = [xml |-> 1, meta |-> 2]
    /\ ProcFiles(outs).meta = Some(calls[2].ret.meta)
    /\ calls[2].ret.meta.budgetTokens # calls[1].ret.meta.budgetTokens

BothWritten(p) ==
    LET dir == outs[calls[p].root][The(calls[p].cfg).outputDir.v]
    IN  dir # {} /\ The(dir).xml # {} /\ The(dir).meta # {}

\* C27: the tool answers ok:true only when its invocation of focusAuto has
\* returned, with both files written and with that invocation's metadata as
\* meta; a call whose invocation failed is never answered ok:true
C27_ResponseAfterFinish ==
    \A p \in CallIds :
        /\ calls[p].response.kind = "result" =>
              /\ calls[p].pc = "DONE"
              /\ BothWritten(p)
              /\ calls[p].response.meta = calls[p].ret.meta
        /\ calls[p].pc = "FAIL" => calls[p].response.kind # "result"

\* C27 for the standalone server alone
C27_ServerResponseAfterFinish == entry = "mcp_server" => C27_ResponseAfterFinish

\* the standalone server answered a call whose invocation returned, and
\* answered another with an error
C27_ServerAnswers ==
    /\ entry = "mcp_server"
    /\ calls[1].response.kind = "result" /\ calls[1].response.meta.budgetTokens = 2000
    /\ calls[2].response.kind = "error" /\ calls[2].ret.name = "Error"

\* C28: the invocations of one process interleave only where focusAuto
\* awaits the listing: a step that writes is the whole of lines 35-61 of
\* one invocation, which then has returned, and it writes both files; so
\* the two output files of a repository always have the same writer
C28_WritesInOneStep ==
    [][\A r \in Roots :
          /\ writers'[r].xml = writers'[r].meta
          /\ outs'[r] # outs[r] \/ writers'[r] # writers[r] =>
                \E p \in CallIds :
                    /\ calls'[p].root = r
                    /\ calls[p].pc \in {"idle", "DONE", "FAIL", "RESUME"}
                    /\ \/ /\ calls'[p].pc = "DONE"
                          /\ writers'[r] = [xml |-> p, meta |-> p]
                          /\ fits(The(calls'[p].estTokens), calls'[p].budget)
                          /\ LET dir == The(outs'[r][The(calls'[p].cfg).outputDir.v])
                             IN  /\ dir.xml = Some(The(calls'[p].built).xml)
                                 /\ dir.meta = Some(calls'[p].ret.meta)
                       \/ /\ calls'[p].pc = "AWAIT"
                          /\ calls[p].pc \in {"idle", "DONE", "FAIL"}
                          /\ writers'[r] = writers[r]
    ]_vars

\* two invocations are under way on one repository: one has written both
\* files and returned while the other, on its second tier, has its listing
\* and waits to be resumed
C28_Witness ==
    /\ calls[1].root = calls[2].root
    /\ calls[1].pc = "DONE"
    /\ writers[calls[1].root] = [xml |-> 1, meta |-> 1]
    /\ calls[2].pc = "RESUME"
    /\ calls[2].tier = 2


\* the number of ADD_MODULE messages for a path that the ready handler of
\* panel p posted to it
flushedTo(p, path) ==
    Cardinality({k \in 1..Len(panels[p].inbox) :
                    panels[p].inbox[k].path = path /\ panels[p].inbox[k].via = "ready"})

\* C29: a path passed to addToGraph while the active panel was not ready is
\* posted to that panel exactly once by its webviewReady, which leaves the
\* queue empty; nothing is posted by a ready handler to a panel the path
\* was not queued for; a path is posted at once only to a panel that has
\* reported ready
C29_QueuedPathsDelivered ==
    /\ \A i \in 1..Len(passed) :
           passed[i].how = "queued" /\ panels[passed[i].panel].ready
               => flushedTo(passed[i].panel, passed[i].path) = 1
    /\ \A p \in PanelIds : \A path \in ManifestPaths :
           flushedTo(p, path) > 0
               => \E i \in 1..Len(passed) :
                      passed[i] = [path |-> path, panel |-> p, how |-> "queued"]
    /\ \A i \in 1..Len(passed) :
           passed[i].how = "posted" => panels[passed[i].panel].ready
    /\ activePanel # NoActivePanel /\ panels[activePanel].ready => pendingAddModules = <<>>

\* C30: a container has at most one request in flight, and once every
\* result has arrived no container is left in inspectInFlight
C30_GateReleased ==
    /\ \A c \in ContainerIds :
           Cardinality({request \in inspections.open : request.containerId = c}) <= 1
    /\ inspections.open = {} => inspectInFlight = {}
=============================================================================
